---- MODULE Spec2Model ----
(***************************************************************************)
(* Calculation core of martingale-strategy-calc: the odds converter        *)
(* (oddsConverter.js) and the progression / statistics engine              *)
(* (martingaleCalculator.js).                                              *)
(*                                                                         *)
(* JavaScript numbers are modelled as exact rationals n/d in lowest terms  *)
(* together with the three IEEE specials NaN, +Infinity and -Infinity.     *)
(* The finite range is scaled down: a magnitude above MaxDouble overflows  *)
(* to an infinity (Number.MAX_VALUE) and a non-zero magnitude below        *)
(* 1/UnderflowInv flushes to zero (Number.MIN_VALUE).  Rounding inside the *)
(* finite range is not modelled: arithmetic there is exact.                *)
(* JavaScript strings are sequences of one-character strings.              *)
(***************************************************************************)
EXTENDS Integers, Sequences, FiniteSets, TLC

\* ------------------------------------------------------------------ bounds

\* Largest finite magnitude of the scaled number line.
MaxDouble == 1000000
\* Reciprocal of the smallest positive magnitude of the scaled number line.
UnderflowInv == 1000000000
\* Longest string drawn exhaustively over Alphabet as an odds input.
MaxLen == 3
\* Largest maxRounds drawn for a configuration.
MaxRoundsBound == 4
\* The largest whole number of sessions simulated
MaxSessions == 3

\* Largest integer the rational kernel lets a numerator or denominator reach.
MaxInt == 2 * UnderflowInv

\* ------------------------------------------------------- JavaScript values

Abs(a) == IF a < 0 THEN -a ELSE a

RECURSIVE GCD(_, _)
GCD(a, b) == IF b = 0 THEN a ELSE GCD(b, a % b)

NaN == [k |-> "nan", n |-> 0, d |-> 1, s |-> <<>>]
PosInf == [k |-> "inf", n |-> 1, d |-> 1, s |-> <<>>]
NegInf == [k |-> "inf", n |-> -1, d |-> 1, s |-> <<>>]
Undefined == [k |-> "undef", n |-> 0, d |-> 1, s |-> <<>>]
Str(chars) == [k |-> "str", n |-> 0, d |-> 1, s |-> chars]
Zero == [k |-> "fin", n |-> 0, d |-> 1, s |-> <<>>]

\* a * b fits the integer range of the kernel (a, b >= 0).
Fits(a, b) == a = 0 \/ b <= MaxInt \div a

\* The double nearest to nn/dd (dd # 0): lowest terms, overflow, underflow.
Norm(nn, dd) ==
  LET sg == IF dd < 0 THEN -1 ELSE 1
      g == GCD(Abs(nn), Abs(dd))
      n == (sg * nn) \div g
      d == (sg * dd) \div g
      a == Abs(n)
  IN IF n = 0 THEN Zero
     ELSE IF a \div d > MaxDouble \/ (a \div d = MaxDouble /\ a % d # 0)
       THEN (IF n > 0 THEN PosInf ELSE NegInf)
     ELSE IF d \div a > UnderflowInv \/ (d \div a = UnderflowInv /\ d % a # 0)
       THEN Zero
     ELSE [k |-> "fin", n |-> n, d |-> d, s |-> <<>>]

Num(i) == Norm(i, 1)
Rat(n, d) == Norm(n, d)

IsNum(x) == x.k \in {"fin", "inf", "nan"}
IsFin(x) == x.k = "fin"
IsNaNv(x) == x.k = "nan"
IsInf(x) == x.k = "inf"
Sign(x) == IF x.n > 0 THEN 1 ELSE IF x.n < 0 THEN -1 ELSE 0

\* typeof x === 'number' / 'string'
TypeofNumber(x) == IsNum(x)
TypeofString(x) == x.k = "str"
\* isFinite(x) and isNaN(x) on a number
isFinite(x) == IsFin(x)
isNaN(x) == IsNaNv(x) \/ x.k = "undef"

JsNeg(x) ==
  IF IsNaNv(x) THEN NaN
  ELSE IF IsInf(x) THEN (IF x.n > 0 THEN NegInf ELSE PosInf)
  ELSE [x EXCEPT !.n = -x.n]

\* x + y
JsAdd(x, y) ==
  IF IsNaNv(x) \/ IsNaNv(y) THEN NaN
  ELSE IF IsInf(x) /\ IsInf(y) THEN (IF x.n = y.n THEN x ELSE NaN)
  ELSE IF IsInf(x) THEN x
  ELSE IF IsInf(y) THEN y
  ELSE LET g == GCD(x.d, y.d)
           fx == y.d \div g
           fy == x.d \div g
       IN Norm(x.n * fx + y.n * fy, x.d * fx)

\* x - y
JsSub(x, y) == JsAdd(x, JsNeg(y))

\* x * y
JsMul(x, y) ==
  IF IsNaNv(x) \/ IsNaNv(y) THEN NaN
  ELSE IF IsInf(x) \/ IsInf(y)
    THEN (IF Sign(x) * Sign(y) = 0 THEN NaN
          ELSE IF Sign(x) * Sign(y) > 0 THEN PosInf ELSE NegInf)
  ELSE IF x.n = 0 \/ y.n = 0 THEN Zero
  ELSE LET g1 == GCD(Abs(x.n), y.d)
           g2 == GCD(Abs(y.n), x.d)
           a == Abs(x.n) \div g1
           b == Abs(y.n) \div g2
           c == x.d \div g2
           e == y.d \div g1
           sg == Sign(x) * Sign(y)
       IN IF Fits(a, b) /\ Fits(c, e) THEN Norm(sg * a * b, c * e)
          ELSE IF Fits(c, e) /\ c * e <= MaxInt \div MaxDouble
            THEN (IF sg > 0 THEN PosInf ELSE NegInf)
          ELSE IF Fits(a, b) /\ a * b <= MaxInt \div UnderflowInv
            THEN Zero
          ELSE Norm(sg * a * b, c * e)

\* x / y
JsDiv(x, y) ==
  IF IsNaNv(x) \/ IsNaNv(y) THEN NaN
  ELSE IF IsInf(x) /\ IsInf(y) THEN NaN
  ELSE IF IsInf(x)
    THEN (IF Sign(x) * (IF y.n < 0 THEN -1 ELSE 1) > 0 THEN PosInf ELSE NegInf)
  ELSE IF IsInf(y) THEN Zero
  ELSE IF y.n = 0
    THEN (IF x.n = 0 THEN NaN ELSE IF x.n > 0 THEN PosInf ELSE NegInf)
  ELSE JsMul(x, [k |-> "fin", n |-> Sign(y) * y.d, d |-> Abs(y.n), s |-> <<>>])

\* -1, 0, 1 as x is below, equal to, above y (neither is NaN)
Cmp(x, y) ==
  IF IsInf(x) /\ IsInf(y) THEN Sign(x) - Sign(y)
  ELSE IF IsInf(x) THEN Sign(x)
  ELSE IF IsInf(y) THEN -Sign(y)
  ELSE LET g == GCD(x.d, y.d)
           l == x.n * (y.d \div g)
           r == y.n * (x.d \div g)
       IN IF l < r THEN -1 ELSE IF l > r THEN 1 ELSE 0

\* x < y, x <= y, x > y, x >= y, x === y on numbers (false when either is NaN)
JsLt(x, y) == ~IsNaNv(x) /\ ~IsNaNv(y) /\ Cmp(x, y) < 0
JsLe(x, y) == ~IsNaNv(x) /\ ~IsNaNv(y) /\ Cmp(x, y) <= 0
JsGt(x, y) == JsLt(y, x)
JsGe(x, y) == JsLe(y, x)
JsEq(x, y) == ~IsNaNv(x) /\ ~IsNaNv(y) /\ Cmp(x, y) = 0

\* Math.max(x, y), Math.min(x, y)
MathMax(x, y) == IF IsNaNv(x) \/ IsNaNv(y) THEN NaN ELSE IF JsGe(x, y) THEN x ELSE y
MathMin(x, y) == IF IsNaNv(x) \/ IsNaNv(y) THEN NaN ELSE IF JsLe(x, y) THEN x ELSE y

\* Math.floor(x)
MathFloor(x) == IF IsFin(x) THEN Num(x.n \div x.d) ELSE x

\* acc * x^k by repeated multiplication; a product that has reached 0, NaN or
\* an infinity of a positive x is a fixed point of the multiplication by x
RECURSIVE PowIter(_, _, _)
PowIter(acc, x, k) ==
  IF k = 0 THEN acc
  ELSE IF IsNaNv(acc) \/ (acc = Zero /\ IsFin(x)) \/ (IsInf(acc) /\ Sign(x) > 0)
         \/ x = Norm(1, 1)
    THEN acc
  ELSE PowIter(JsMul(acc, x), x, k - 1)

\* Math.pow(x, k) for an integer k >= 0
MathPow(x, k) == IF k = 0 THEN Norm(1, 1) ELSE PowIter(x, x, k - 1)

\* Math.pow(x, e) for a number e that is a non-negative integer or +Infinity
JsPow(x, e) ==
  IF IsFin(e) THEN MathPow(x, e.n)
  ELSE IF IsNaNv(e) \/ IsNaNv(x) THEN NaN
  ELSE IF JsGt(x, Num(1)) \/ JsLt(x, Num(-1)) THEN PosInf
  ELSE IF JsEq(x, Num(1)) \/ JsEq(x, Num(-1)) THEN NaN
  ELSE Zero

\* The truthiness of a value: undefined/null, NaN, 0 and "" are falsy.
Truthy(x) ==
  CASE x.k = "undef" -> FALSE
    [] x.k = "nan" -> FALSE
    [] x.k = "fin" -> x.n # 0
    [] x.k = "inf" -> TRUE
    [] x.k = "str" -> Len(x.s) > 0

\* A raised exception, as the outcome of an expression or a call.
Thrown == [k |-> "throw", n |-> 0, d |-> 1, s |-> <<>>]

\* ------------------------------------------------------------- strings

Digits == <<"0", "1", "2", "3", "4", "5", "6", "7", "8", "9">>
IsDigit(c) == \E i \in 1..10 : Digits[i] = c
DigitVal(c) == (CHOOSE i \in 1..10 : Digits[i] = c) - 1
InfinityWord == <<"I", "n", "f", "i", "n", "i", "t", "y">>

RECURSIVE Pow10(_)
Pow10(k) == IF k = 0 THEN 1 ELSE 10 * Pow10(k - 1)

\* s without its leading white space / without its trailing white space
RECURSIVE SkipWs(_)
SkipWs(s) == IF Len(s) > 0 /\ Head(s) = " " THEN SkipWs(Tail(s)) ELSE s
RECURSIVE DropWsEnd(_)
DropWsEnd(s) ==
  IF Len(s) > 0 /\ s[Len(s)] = " " THEN DropWsEnd(SubSeq(s, 1, Len(s) - 1)) ELSE s
Trim(s) == DropWsEnd(SkipWs(s))

\* The number of digits of s from position i on
RECURSIVE DigitsLen(_, _)
DigitsLen(s, i) ==
  IF i <= Len(s) /\ IsDigit(s[i]) THEN 1 + DigitsLen(s, i + 1) ELSE 0

\* The value of the k digits of s from position i on
RECURSIVE DigitsVal(_, _, _)
DigitsVal(s, i, k) ==
  IF k = 0 THEN 0 ELSE 10 * DigitsVal(s, i, k - 1) + DigitVal(s[i + k - 1])

HasAt(s, i, w) == i + Len(w) - 1 <= Len(s) /\ SubSeq(s, i, i + Len(w) - 1) = w

\* The literal with sign sg whose digits start at position i of t, il of them
\* before the point and, when dot holds, fl after it: [v: value, e: end], the
\* end being 0 when there is no literal.
ScanLiteral(t, sg, i, il, dot, fl) ==
  IF HasAt(t, i, InfinityWord)
    THEN [v |-> IF sg > 0 THEN PosInf ELSE NegInf, e |-> i + 7]
  ELSE IF il = 0 /\ fl = 0 THEN [v |-> NaN, e |-> 0]
  ELSE [v |-> Norm(sg * (DigitsVal(t, i, il) * Pow10(fl)
                           + DigitsVal(t, i + il + 1, fl)), Pow10(fl)),
        e |-> IF dot THEN i + il + fl ELSE i + il - 1]

ScanFraction(t, sg, i, il, dot) ==
  ScanLiteral(t, sg, i, il, dot, IF dot THEN DigitsLen(t, i + il + 1) ELSE 0)

ScanInteger(t, sg, i, il) ==
  ScanFraction(t, sg, i, il, i + il <= Len(t) /\ t[i + il] = ".")

ScanSigned(t, sg, i) == ScanInteger(t, sg, i, DigitsLen(t, i))

\* The longest prefix of t that is a StrDecimalLiteral (no exponent part: the
\* modelled alphabet has no 'e')
ScanDecimal(t) ==
  IF Len(t) > 0 /\ t[1] = "-" THEN ScanSigned(t, -1, 2)
  ELSE IF Len(t) > 0 /\ t[1] = "+" THEN ScanSigned(t, 1, 2)
  ELSE ScanSigned(t, 1, 1)

\* parseFloat(x): a number is returned as it is, a string is scanned
parseFloat(x) ==
  CASE IsNum(x) -> x
    [] x.k = "str" -> ScanDecimal(SkipWs(x.s)).v
    [] OTHER -> NaN

\* The integer with sign sg whose digits start at position i of t
IntegerAt(t, sg, i, il) ==
  IF il = 0 THEN NaN ELSE Norm(sg * DigitsVal(t, i, il), 1)

ScanInt(t) ==
  IF Len(t) > 0 /\ t[1] = "-" THEN IntegerAt(t, -1, 2, DigitsLen(t, 2))
  ELSE IF Len(t) > 0 /\ t[1] = "+" THEN IntegerAt(t, 1, 2, DigitsLen(t, 2))
  ELSE IntegerAt(t, 1, 1, DigitsLen(t, 1))

\* parseInt(x): radix 10; a number is converted to its decimal numeral first,
\* which truncates it towards zero (numbers below 10^-6 in magnitude, whose
\* numeral has an exponent, are not among the inputs)
parseInt(x) ==
  CASE x.k = "fin" -> Num(IF x.n >= 0 THEN x.n \div x.d ELSE -((-x.n) \div x.d))
    [] x.k = "str" -> ScanInt(SkipWs(x.s))
    [] OTHER -> NaN

\* The literal r scanned from t when it spans the whole of t, else NaN
WholeLiteral(t, r) == IF r.e = Len(t) THEN r.v ELSE NaN

NumberOfTrimmed(t) == IF Len(t) = 0 THEN Zero ELSE WholeLiteral(t, ScanDecimal(t))

\* Number(s) of a string: the whole trimmed text must be a numeric literal
ToNumber(s) == NumberOfTrimmed(Trim(s))

\* s.split('/')
RECURSIVE Split(_)
Split(s) ==
  IF \E i \in 1..Len(s) : s[i] = "/"
    THEN LET i == CHOOSE i \in 1..Len(s) :
                    s[i] = "/" /\ \A j \in 1..(i - 1) : s[j] # "/"
         IN <<SubSeq(s, 1, i - 1)>> \o Split(SubSeq(s, i + 1, Len(s)))
    ELSE <<s>>

\* s.replace('+', ''): the first '+' removed
ReplacePlus(s) ==
  IF \E i \in 1..Len(s) : s[i] = "+"
    THEN LET i == CHOOSE i \in 1..Len(s) :
                    s[i] = "+" /\ \A j \in 1..(i - 1) : s[j] # "+"
         IN SubSeq(s, 1, i - 1) \o SubSeq(s, i + 1, Len(s))
    ELSE s

\* ------------------------------------------------------ oddsConverter.js

\* Even money in the place of the minimum valid decimal odds
MinOddsOne == Num(1)

\* The literal 1.01, the minimum valid decimal odds
MinOdds == Rat(101, 100)

\* Lines 439-446 of fractionalToDecimal
fractionalResult(result) ==
  IF ~isFinite(result) \/ JsLt(result, MinOdds) THEN MinOdds ELSE result

\* Lines 435-446 of fractionalToDecimal
fractionalOf(numerator, denominator) ==
  IF isNaN(numerator) \/ isNaN(denominator) \/ JsEq(denominator, Zero)
    THEN MinOdds
  ELSE fractionalResult(JsAdd(JsDiv(numerator, denominator), Num(1)))

\* const [numerator, denominator] = parts.map(Number)
fractionalParts(parts) ==
  fractionalOf(ToNumber(parts[1]),
               IF Len(parts) >= 2 THEN ToNumber(parts[2]) ELSE Undefined)

\* The body of fractionalToDecimal's try block; Thrown when split is called
\* on a value that is no string.
fractionalTry(fractional) ==
  IF ~TypeofString(fractional) THEN Thrown
  ELSE fractionalParts(Split(fractional.s))

\* The catch of fractionalToDecimal
fractionalCatch(r) == IF r = Thrown THEN MinOdds ELSE r

fractionalToDecimal(fractional) == fractionalCatch(fractionalTry(fractional))

\* americanOf without the range check of lines 412-414
americanOfUnchecked(num) ==
  IF IsNum(num) /\ JsGt(num, Zero)
    THEN MathMax(JsAdd(JsDiv(num, Num(100)), Num(1)), MinOdds)
  ELSE IF IsNum(num) /\ JsLt(num, Zero)
    THEN MathMax(JsAdd(JsDiv(Num(100), JsNeg(num)), Num(1)), MinOdds)
  ELSE MinOdds

\* Lines 407-419 of americanToDecimal
americanOf(num) ==
  IF IsNum(num) /\ JsGt(num, Zero)
    THEN MathMax(JsAdd(JsDiv(num, Num(100)), Num(1)), MinOdds)
  ELSE IF IsNum(num) /\ JsLt(num, Zero)
    THEN (IF JsLt(JsNeg(num), Num(100)) THEN MinOdds
          ELSE MathMax(JsAdd(JsDiv(Num(100), JsNeg(num)), Num(1)), MinOdds))
  ELSE MinOdds

americanToDecimal(american) ==
  americanOf(IF TypeofString(american)
               THEN parseInt(Str(ReplacePlus(american.s)))
               ELSE american)

\* decimalToImpliedProbability with the floor 1.01 itself refused
decimalToImpliedProbabilityAboveFloor(decimal) ==
  IF JsLe(decimal, MinOdds) \/ ~isFinite(decimal) THEN Zero
  ELSE JsMul(JsDiv(Num(1), decimal), Num(100))

decimalToImpliedProbability(decimal) ==
  IF JsLt(decimal, MinOdds) \/ ~isFinite(decimal) THEN Zero
  ELSE JsMul(JsDiv(Num(1), decimal), Num(100))

impliedProbabilityToDecimal(probability) ==
  IF JsLe(probability, Zero) \/ JsGe(probability, Num(100)) \/ ~isFinite(probability)
    THEN MinOdds
  ELSE JsDiv(Num(100), probability)

OddsTypes == {"decimal", "american", "fractional", "implied"}

\* The switch of convertToDecimal
convertSwitch(odds, type) ==
  CASE type = "decimal" -> parseFloat(odds)
    [] type = "american" -> americanToDecimal(parseInt(odds))
    [] type = "fractional" -> fractionalToDecimal(odds)
    [] type = "implied" -> impliedProbabilityToDecimal(parseFloat(odds))
    [] OTHER -> parseFloat(odds)

\* convertGuard with the clamp to 1.01 left out
convertGuardAbsent(result) == result

\* The final guard of convertToDecimal
convertGuard(result) ==
  IF ~isFinite(result) \/ JsLt(result, MinOdds) THEN MinOdds ELSE result

\* The catch of convertToDecimal
convertCatch(result) == IF result = Thrown THEN MinOdds ELSE convertGuard(result)

convertToDecimal(odds, type) == convertCatch(convertSwitch(odds, type))

\* calculatePayout reporting the total return as the profit
calculatePayoutGross(stake, decimalOdds) ==
  [stake |-> stake, profit |-> JsMul(stake, decimalOdds),
   totalReturn |-> JsMul(stake, decimalOdds), odds |-> decimalOdds]

payoutOf(stake, decimalOdds, totalReturn) ==
  [stake |-> stake, profit |-> JsSub(totalReturn, stake),
   totalReturn |-> totalReturn, odds |-> decimalOdds]

calculatePayout(stake, decimalOdds) ==
  payoutOf(stake, decimalOdds, JsMul(stake, decimalOdds))

\* ------------------------------------------------- martingaleCalculator.js

\* maxRounds = 20, betMultiplier = 2: the defaults of the destructuring
DefaultMaxRounds == 20
DefaultBetMultiplier == 2
\* recommendedBankroll: baseBet * 20
RecommendedFactor == 20

\* A destructured field with its default: the default replaces undefined only
WithDefault(x, dflt) == IF x.k = "undef" THEN dflt ELSE x

\* Lines 204-220 of calculateRiskOfRuin
riskOfRatio(units, winProbability, q_p) ==
  IF JsEq(winProbability, Rat(1, 2)) THEN Num(1)
  ELSE IF JsEq(q_p, Num(1)) THEN Num(1)
  ELSE IF ~isFinite(q_p) \/ JsLe(q_p, Zero) THEN Num(1)
  ELSE MathMin(MathMax(JsPow(q_p, units), Zero), Num(1))

\* calculateRiskOfRuin with the ratio inverted: p / q in place of q / p
calculateRiskOfRuinInverted(bankroll, unitSize, winProbability) ==
  IF JsLe(bankroll, Zero) \/ JsLe(unitSize, Zero)
       \/ JsLe(winProbability, Zero) \/ JsGe(winProbability, Num(1))
    THEN Num(1)
  ELSE riskOfRatio(MathFloor(JsDiv(bankroll, unitSize)), winProbability,
                   JsDiv(winProbability, JsSub(Num(1), winProbability)))

calculateRiskOfRuin(bankroll, unitSize, winProbability) ==
  IF JsLe(bankroll, Zero) \/ JsLe(unitSize, Zero)
       \/ JsLe(winProbability, Zero) \/ JsGe(winProbability, Num(1))
    THEN Num(1)
  ELSE riskOfRatio(MathFloor(JsDiv(bankroll, unitSize)), winProbability,
                   JsDiv(JsSub(Num(1), winProbability), winProbability))

\* kellyResult without the lower clamp Math.max(0, .)
kellyResultUnclamped(kelly) ==
  IF ~isFinite(kelly) \/ isNaN(kelly) THEN Zero ELSE MathMin(kelly, Num(1))

\* Lines 238-243 of calculateKellyCriterion
kellyResult(kelly) ==
  IF ~isFinite(kelly) \/ isNaN(kelly) THEN Zero
  ELSE MathMax(Zero, MathMin(kelly, Num(1)))

\* (b * p - q) / b
kellyOf(b, p, q) == kellyResult(JsDiv(JsSub(JsMul(b, p), q), b))

calculateKellyCriterion(decimalOdds, winProbability) ==
  IF JsLe(decimalOdds, Num(1)) \/ JsLe(winProbability, Zero)
       \/ JsGe(winProbability, Num(1))
    THEN Zero
  ELSE kellyOf(JsSub(decimalOdds, Num(1)), winProbability,
               JsSub(Num(1), winProbability))

\* Lines 152-155: the term of round k (i = k - 1) added to the sum so far
addRound(prev, roundData, winOnThisRound) ==
  IF ~isNaN(roundData.netProfitIfWin)
    THEN JsAdd(prev, JsMul(winOnThisRound, roundData.netProfitIfWin))
  ELSE prev

\* The expected-value loop over rounds 1..k of the progression (i = 0..k-1)
RECURSIVE ExpectedValueLoop(_, _, _, _)
ExpectedValueLoop(progression, winProbability, lossProbability, k) ==
  IF k = 0 THEN Zero
  ELSE addRound(ExpectedValueLoop(progression, winProbability, lossProbability, k - 1),
                progression[k],
                JsMul(MathPow(lossProbability, k - 1), winProbability))

\* Lines 159-162: the all-loss branch
addLoseAll(ev, progression, bustProbability) ==
  IF Len(progression) > 0 /\ ~isNaN(progression[Len(progression)].totalWagered)
    THEN JsAdd(ev, JsMul(bustProbability,
                         JsNeg(progression[Len(progression)].totalWagered)))
  ELSE ev

\* Lines 165-167
finiteOrZero(expectedValue) == IF ~isFinite(expectedValue) THEN Zero ELSE expectedValue

\* Lines 178-189: the record returned
statisticsRecord(progression, bustProbability, expectedValue, riskOfRuin, kellyCriterion, baseBet) ==
  [maxPossibleRounds |-> Len(progression),
   bustProbability |-> JsMul(bustProbability, Num(100)),
   winProbabilityAtLeastOnce |-> JsMul(JsSub(Num(1), bustProbability), Num(100)),
   expectedValue |-> expectedValue,
   riskOfRuin |-> JsMul(riskOfRuin, Num(100)),
   maxDrawdown |-> IF Len(progression) > 0
                     THEN progression[Len(progression)].totalWagered ELSE Zero,
   kellyCriterion |-> JsMul(kellyCriterion, Num(100)),
   recommendedBankroll |-> JsMul(baseBet, Num(RecommendedFactor)),
   averageProfit |-> IF Len(progression) > 0
                       THEN progression[Len(progression)].netProfitIfWin ELSE Zero,
   worstCaseScenario |-> IF Len(progression) > 0
                           THEN JsNeg(progression[Len(progression)].totalWagered)
                           ELSE Zero]

statisticsWith(progression, winProbability, lossProbability, bankroll, baseBet, decimalOdds, bustProbability) ==
  statisticsRecord(progression, bustProbability,
    finiteOrZero(addLoseAll(ExpectedValueLoop(progression, winProbability,
                                              lossProbability, Len(progression)),
                            progression, bustProbability)),
    calculateRiskOfRuin(bankroll, baseBet, winProbability),
    calculateKellyCriterion(decimalOdds, winProbability),
    baseBet)

\* calculateStatistics with the bust probability taken from winProbability
calculateStatisticsWinPow(progression, winProbability, lossProbability, bankroll, baseBet, decimalOdds) ==
  statisticsWith(progression, winProbability, lossProbability, bankroll, baseBet,
                 decimalOdds, MathPow(winProbability, Len(progression)))

calculateStatistics(progression, winProbability, lossProbability, bankroll, baseBet, decimalOdds) ==
  statisticsWith(progression, winProbability, lossProbability, bankroll, baseBet,
                 decimalOdds, MathPow(lossProbability, Len(progression)))

\* The statistics slot before calculateMartingaleProgression has returned
NoStatistics ==
  [maxPossibleRounds |-> 0, bustProbability |-> Zero,
   winProbabilityAtLeastOnce |-> Zero, expectedValue |-> Zero,
   riskOfRuin |-> Zero, maxDrawdown |-> Zero, kellyCriterion |-> Zero,
   recommendedBankroll |-> Zero, averageProfit |-> Zero,
   worstCaseScenario |-> Zero]

\* Lines 45-51: the error for win probability winP, "" when there is none
ProbabilityError(winP) ==
  IF ~isFinite(winP) \/ JsLe(winP, Zero) \/ JsGe(winP, Num(1))
    THEN "Invalid probability calculation"
  ELSE ""

\* A win probability midway between the implied probability and 1
WinProbabilityFavourable(dec) ==
  JsDiv(JsAdd(decimalToImpliedProbability(dec), Num(100)), Num(200))

\* const winProbability = decimalToImpliedProbability(decimalOdds) / 100
WinProbabilityOf(dec) == JsDiv(decimalToImpliedProbability(dec), Num(100))

\* Lines 41-51: the error for decimal odds dec, "" when there is none
OddsError(dec) ==
  IF JsLe(dec, Num(1)) THEN "Invalid odds - must be greater than 1.00"
  ELSE ProbabilityError(WinProbabilityOf(dec))

\* ValidationError without the isFinite tests of lines 26 and 29
ValidationErrorNoFinite(c) ==
  IF ~c.obj THEN "Invalid configuration object"
  ELSE IF ~TypeofNumber(c.baseBet) \/ JsLe(c.baseBet, Zero)
    THEN "Base bet must be a positive number"
  ELSE IF ~TypeofNumber(c.bankroll) \/ JsLe(c.bankroll, Zero)
    THEN "Bankroll must be a positive number"
  ELSE IF ~TypeofNumber(c.odds) /\ ~TypeofString(c.odds)
    THEN "Odds must be a number or string"
  ELSE IF c.oddsType = "" \/ c.oddsType \notin OddsTypes
    THEN "Invalid odds type"
  ELSE OddsError(convertToDecimal(c.odds, c.oddsType))

\* The message of the error calculateMartingaleProgression throws for config c,
\* "" when it throws none.
ValidationError(c) ==
  IF ~c.obj THEN "Invalid configuration object"
  ELSE IF ~TypeofNumber(c.baseBet) \/ JsLe(c.baseBet, Zero) \/ ~isFinite(c.baseBet)
    THEN "Base bet must be a positive number"
  ELSE IF ~TypeofNumber(c.bankroll) \/ JsLe(c.bankroll, Zero) \/ ~isFinite(c.bankroll)
    THEN "Bankroll must be a positive number"
  ELSE IF ~TypeofNumber(c.odds) /\ ~TypeofString(c.odds)
    THEN "Odds must be a number or string"
  ELSE IF c.oddsType = "" \/ c.oddsType \notin OddsTypes
    THEN "Invalid odds type"
  ELSE OddsError(convertToDecimal(c.odds, c.oddsType))

\* ------------------------------------------------------------ the state

VARIABLES
  pc,                 \* position in the call being modelled
  config,             \* the configuration object passed in
  decimalOdds,        \* const decimalOdds
  winProbability,     \* const winProbability
  lossProbability,    \* const lossProbability
  progression,        \* const progression = []
  currentBet,         \* let currentBet
  totalLoss,          \* let totalLoss
  totalWagered,       \* let totalWagered
  round,              \* let round
  remainingBankroll,  \* let remainingBankroll
  statistics,         \* const statistics
  error,              \* the message of the error thrown, "" when none
  ret,                \* where calculateMartingaleProgression was called from
  builds,             \* the calls of calculateMartingaleProgression so far
  numSessions,        \* simulateMartingaleSessions: the numSessions argument
  session,            \* simulateMartingaleSessions: let session
  results,            \* simulateMartingaleSessions: const results = []
  summary,            \* simulateMartingaleSessions: the summary returned
  roundIndex,         \* simulateSingleSession: let i
  draws,              \* simulateSingleSession: what Math.random() returned so far
  statsArg,           \* generateRiskWarnings: the statistics argument
  formatted,          \* formatOdds: the text returned
  warnings            \* generateRiskWarnings: const warnings = []

vars == <<pc, config, decimalOdds, winProbability, lossProbability, progression,
          currentBet, totalLoss, totalWagered, round, remainingBankroll,
          statistics, error, ret, builds, numSessions, session, results, summary,
          roundIndex, draws, statsArg, formatted, warnings>>

\* The state of the callers of calculateMartingaleProgression
callVars == <<ret, numSessions, session, results, summary, roundIndex, draws,
              statsArg, formatted, warnings>>

locals == <<currentBet, totalLoss, totalWagered, round, remainingBankroll>>

\* maxRounds with the loop bound taken one too far
maxRoundsOneMore == JsAdd(WithDefault(config.maxRounds, Num(DefaultMaxRounds)), Num(1))

\* The fields destructured from config, with their defaults
maxRounds == WithDefault(config.maxRounds, Num(DefaultMaxRounds))
targetProfit == config.targetProfit
betMultiplier == WithDefault(config.betMultiplier, Num(DefaultBetMultiplier))
maxTableLimit == config.maxTableLimit

\* The affordability test made from the second round on only
UnaffordableAfterFirst(bet, remaining) == round > 1 /\ JsGt(bet, remaining)

\* The affordability test left out
UnaffordableNever(bet, remaining) == FALSE

\* The affordability test made against the whole bankroll
UnaffordableOfBankroll(bet, remaining) == JsGt(bet, config.bankroll)

\* Line 63: currentBet > remainingBankroll
Unaffordable(bet, remaining) == JsGt(bet, remaining)

\* The table limit tested against the stake of the round before
OverTableLimitLate(bet, limit) ==
  Truthy(limit) /\ JsGt(JsDiv(bet, betMultiplier), limit)

\* Line 68: maxTableLimit && currentBet > maxTableLimit
OverTableLimit(bet, limit) == Truthy(limit) /\ JsGt(bet, limit)

\* The stake left as it is for the next round
NextBetSame(bet, multiplier) == bet

\* Line 100: currentBet *= betMultiplier
NextBet(bet, multiplier) == JsMul(bet, multiplier)

\* Lines 53-58: the loop's variables for decimal odds dec and win probability winP
StartLoop(dec, winP) ==
  /\ decimalOdds' = dec
  /\ winProbability' = winP
  /\ lossProbability' = JsSub(Num(1), winP)
  /\ progression' = <<>>
  /\ currentBet' = config.baseBet
  /\ totalLoss' = Zero
  /\ totalWagered' = Zero
  /\ round' = 1
  /\ remainingBankroll' = config.bankroll

\* The outcome of the validation: the error msg is thrown, or the loop starts
ValidateWith(msg, dec) ==
  IF msg # ""
    THEN /\ pc' = "error"
         /\ error' = msg
         /\ UNCHANGED <<decimalOdds, winProbability, lossProbability,
                        progression, locals>>
    ELSE /\ pc' = "loop"
         /\ StartLoop(dec, WinProbabilityOf(dec))
         /\ UNCHANGED error

\* Lines 8-58: validation, odds conversion, initialisation of the loop
Validate ==
  /\ pc = "start"
  /\ ValidateWith(ValidationError(config),
                  convertToDecimal(config.odds, config.oddsType))
  /\ builds' = builds + 1
  /\ UNCHANGED <<config, statistics, callVars>>

\* Line 61: the loop condition fails
LoopExit ==
  /\ pc = "loop"
  /\ ~JsLe(Num(round), maxRounds)
  /\ pc' = "stats"
  /\ UNCHANGED <<config, decimalOdds, winProbability, lossProbability,
                 progression, locals, statistics, error, callVars, builds>>

\* Lines 63-65: the bet exceeds the remaining bankroll
StopUnaffordable ==
  /\ pc = "loop"
  /\ JsLe(Num(round), maxRounds)
  /\ Unaffordable(currentBet, remainingBankroll)
  /\ pc' = "stats"
  /\ UNCHANGED <<config, decimalOdds, winProbability, lossProbability,
                 progression, locals, statistics, error, callVars, builds>>

\* Lines 68-70: the bet exceeds the table limit
StopTableLimit ==
  /\ pc = "loop"
  /\ JsLe(Num(round), maxRounds)
  /\ ~Unaffordable(currentBet, remainingBankroll)
  /\ OverTableLimit(currentBet, maxTableLimit)
  /\ pc' = "stats"
  /\ UNCHANGED <<config, decimalOdds, winProbability, lossProbability,
                 progression, locals, statistics, error, callVars, builds>>

\* The round record pushed at lines 81-92, netProfitIfWin being line 78's
RoundFields(rnd, bet, loss, wagered, remaining, payout, target, netProfitIfWin) ==
  [round |-> rnd,
   betAmount |-> bet,
   cumulativeLoss |-> JsSub(loss, bet),
   totalWagered |-> wagered,
   potentialWin |-> payout.profit,
   netProfitIfWin |-> netProfitIfWin,
   totalReturnIfWin |-> payout.totalReturn,
   remainingBankroll |-> remaining,
   breakeven |-> JsGe(netProfitIfWin, Zero),
   targetMet |-> IF Truthy(target) THEN JsGe(netProfitIfWin, target)
                 ELSE JsGt(netProfitIfWin, Zero)]

\* RoundRecord with cumulativeLoss counting this round's stake too
RoundRecordInclusive(rnd, bet, loss, wagered, remaining, payout, target) ==
  [RoundFields(rnd, bet, loss, wagered, remaining, payout, target,
               JsSub(payout.profit, JsSub(loss, bet)))
     EXCEPT !.cumulativeLoss = loss]

\* Lines 78-92
RoundRecord(rnd, bet, loss, wagered, remaining, payout, target) ==
  RoundFields(rnd, bet, loss, wagered, remaining, payout, target,
              JsSub(payout.profit, JsSub(loss, bet)))

\* TargetReached with > in place of >=
TargetReachedStrict(rec, target) == Truthy(target) /\ JsGt(rec.netProfitIfWin, target)

\* Lines 95-97: the target profit is reached by the round just pushed
TargetReached(rec, target) == Truthy(target) /\ JsGe(rec.netProfitIfWin, target)

\* Lines 81-101: rec is pushed; the loop goes on unless the target is met
PushRound(rec) ==
  /\ progression' = Append(progression, rec)
  /\ IF TargetReached(rec, targetProfit)
       THEN /\ pc' = "stats"
            /\ UNCHANGED <<currentBet, round>>
       ELSE /\ pc' = "loop"
            /\ currentBet' = NextBet(currentBet, betMultiplier)
            /\ round' = round + 1

\* Lines 72-101: one round is emitted
EmitRound ==
  /\ pc = "loop"
  /\ JsLe(Num(round), maxRounds)
  /\ ~Unaffordable(currentBet, remainingBankroll)
  /\ ~OverTableLimit(currentBet, maxTableLimit)
  /\ totalWagered' = JsAdd(totalWagered, currentBet)
  /\ totalLoss' = JsAdd(totalLoss, currentBet)
  /\ remainingBankroll' = JsSub(remainingBankroll, currentBet)
  /\ PushRound(RoundRecord(round, currentBet, totalLoss', totalWagered',
                           remainingBankroll',
                           calculatePayout(currentBet, decimalOdds), targetProfit))
  /\ UNCHANGED <<config, decimalOdds, winProbability, lossProbability,
                 statistics, error, callVars, builds>>

\* Lines 104-125: the statistics are computed and the result is returned
Finish ==
  /\ pc = "stats"
  /\ statistics' = calculateStatistics(progression, winProbability,
                     lossProbability, config.bankroll, config.baseBet, decimalOdds)
  /\ pc' = "done"
  /\ UNCHANGED <<config, decimalOdds, winProbability, lossProbability,
                 progression, locals, error, callVars, builds>>

\* ------------------------------------------------------------ the inputs

\* The characters odds strings are drawn from exhaustively
Alphabet == {"0", "1", "5", "9", ".", "/", "-", "a"}

\* Every string over Alphabet of length at most MaxLen
ShortStrings == UNION {{Str(s) : s \in [1..k -> Alphabet]} : k \in 0..MaxLen}

\* Odds texts of the repository's test script and of the conversion edge cases
NamedStrings ==
  {Str(<<"2", ".", "0", "0">>),
   Str(<<"+", "1", "0", "0">>),
   Str(<<"1", "/", "1">>),
   Str(<<"5", "0">>),
   Str(<<"1", ".", "0", "1">>),
   Str(<<"1", ".", "0", "0">>),
   Str(<<"0", ".", "5", "0">>),
   Str(<<"1", "0", "0", "0", ".", "0", "0">>),
   Str(<<"-", "2", "0", "0">>),
   Str(<<"+", "1", "5", "0">>),
   Str(<<"3", "/", "2">>),
   Str(<<"1", "/", "2", "/", "3">>),
   Str(<<"I", "n", "f", "i", "n", "i", "t", "y">>),
   Str(<<"-", "I", "n", "f", "i", "n", "i", "t", "y">>),
   Str(<<"9", "9", "9", "9", "9", "9", "9">>),
   Str(<<".", "0", "0", "0", "0", "1">>),
   Str(<<" ", "5", "/", " ", "2", " ">>),
   Str(<<"9", "9", ".", "5">>),
   Str(<<"1", "0", "0">>),
   Str(<<"-", "5", "0", "/", "2">>),
   Str(<<"1", "0", ".", "0", "0">>),
   Str(<<"1", ".", "5", "0">>),
   Str(<<"a", "b", "c">>),
   Str(<<"3", "/", "0">>),
   Str(<<"-", "9", "9">>),
   Str(<<"+", "9", "9">>),
   Str(<<"-", "2", "0", "0", "0", "0">>),
   Str(<<"-", "1", "0", "0">>),
   Str(<<"9", "9", "9", "9", "9">>)}

\* Numbers passed as odds
OddsNumbers ==
  {Num(2), Rat(5, 2), Num(150), Num(-200), Num(-50), Num(50), Zero, Num(1),
   Rat(1, 2), Rat(101, 100), Num(MaxDouble), NaN, PosInf, NegInf}

OddsInputs == ShortStrings \cup NamedStrings \cup OddsNumbers

\* The 'Standard case - 2.00 odds' configuration of the test script
BaseConfig ==
  [obj |-> TRUE, baseBet |-> Num(10), bankroll |-> Num(1000),
   odds |-> Str(<<"2", ".", "0", "0">>), oddsType |-> "decimal",
   maxRounds |-> Num(10), targetProfit |-> Undefined,
   betMultiplier |-> Num(2), maxTableLimit |-> Undefined]

\* Values a caller may pass where a positive finite number is required
FieldValues ==
  {Num(10), Zero, Num(-5), NaN, PosInf, NegInf, Str(<<"1", "0">>), Undefined}

\* Configurations that exercise the validation of lines 10-51
ValidationConfigs ==
  {[BaseConfig EXCEPT !.obj = o, !.baseBet = b, !.bankroll = k,
                      !.odds = od, !.oddsType = ty] :
     o \in BOOLEAN, b \in FieldValues, k \in FieldValues,
     od \in {Str(<<"2", ".", "0", "0">>), Num(2), Undefined},
     ty \in OddsTypes \cup {"", "moneyline"}}

\* maxRounds as a caller passes it: absent, or 1..MaxRoundsBound, or 10
RoundCaps == {Undefined, Num(10)} \cup {Num(i) : i \in 1..MaxRoundsBound}

\* Even odds in the four notations: decimal odds 2
EvenOdds ==
  {<<Str(<<"2", ".", "0", "0">>), "decimal">>, <<Str(<<"+", "1", "0", "0">>), "american">>,
   <<Str(<<"1", "/", "1">>), "fractional">>, <<Str(<<"5", "0">>), "implied">>}

EvenConfigs ==
  {[BaseConfig EXCEPT !.baseBet = b, !.bankroll = k, !.odds = od[1],
                      !.oddsType = od[2], !.maxRounds = mr, !.targetProfit = tp,
                      !.betMultiplier = bm, !.maxTableLimit = tl] :
     b \in {Num(1), Num(10)}, k \in {Num(10), Num(25), Num(1000)},
     od \in EvenOdds, mr \in RoundCaps,
     tp \in {Undefined, Num(50)},
     bm \in {Undefined, Num(1), Num(3)},
     tl \in {Undefined, Num(15), Num(500)}}

\* Other prices: decimal odds 3, 1.5, 2.5 and 10
OtherOdds ==
  {<<Num(3), "decimal">>, <<Str(<<"-", "2", "0", "0">>), "american">>, <<Str(<<"3", "/", "2">>), "fractional">>,
   <<Str(<<"1", "0", ".", "0", "0">>), "decimal">>, <<Str(<<"4", "0">>), "implied">>}

OtherConfigs ==
  {[BaseConfig EXCEPT !.baseBet = b, !.bankroll = k, !.odds = od[1],
                      !.oddsType = od[2], !.maxRounds = mr, !.targetProfit = tp,
                      !.betMultiplier = bm, !.maxTableLimit = tl] :
     b \in {Num(1), Num(2)}, k \in {Num(2), Num(10)},
     od \in OtherOdds, mr \in {Num(i) : i \in 1..MaxRoundsBound},
     tp \in {Undefined, Num(5)},
     bm \in {Num(1), Num(2), Rat(3, 2)},
     tl \in {Undefined, Num(3)}}

\* Configurations whose first stake is unaffordable (bankroll 5 < baseBet 10)
\* or above the table limit (5 < 10): the breaks of lines 64 and 69 at round 1
FirstStakeConfigs ==
  {[BaseConfig EXCEPT !.bankroll = kt[1], !.maxTableLimit = kt[2],
                      !.odds = od[1], !.oddsType = od[2], !.maxRounds = mr] :
     kt \in {<<Num(5), Undefined>>, <<Num(5), Num(5)>>, <<Num(20), Num(5)>>},
     od \in EvenOdds \cup OtherOdds, mr \in {Undefined, Num(1), Num(10)}}

\* Odds the converter repairs to its 1.01 fallback
FallbackOdds ==
  {<<Str(<<"1", ".", "0", "0">>), "decimal">>, <<Str(<<"0", ".", "5", "0">>), "decimal">>, <<Str(<<"a", "b", "c">>), "decimal">>,
   <<Str(<<"3", "/", "0">>), "fractional">>, <<Num(-50), "american">>, <<Num(100), "implied">>}

FallbackConfigs ==
  {[BaseConfig EXCEPT !.baseBet = b, !.bankroll = k, !.odds = od[1],
                      !.oddsType = od[2], !.maxRounds = mr] :
     b \in {Num(1), Num(10)}, k \in {Num(10), Num(1000)},
     od \in FallbackOdds, mr \in {Num(1), Num(2)}}

\* A long price: the payout of a stake exceeds the largest finite number
LongOddsConfigs ==
  {[BaseConfig EXCEPT !.baseBet = b, !.bankroll = Num(10), !.odds = od,
                      !.maxRounds = Num(1)] :
     b \in {Num(1), Num(10)}, od \in {Str(<<"2", "0", "0", "0", "0", "0">>), Num(200000)}}

\* testCases of the test script (without 'American odds positive' and
\* 'Fractional odds', whose risk-of-ruin power (3/2)^100 the exact kernel
\* cannot hold)
TestScriptConfigs ==
  {BaseConfig,
   [BaseConfig EXCEPT !.odds = Str(<<"1", "0", ".", "0", "0">>), !.maxRounds = Num(5)],
   [BaseConfig EXCEPT !.odds = Str(<<"1", ".", "5", "0">>), !.maxRounds = Num(8)],
   [BaseConfig EXCEPT !.odds = Str(<<"-", "2", "0", "0">>), !.oddsType = "american"],
   [BaseConfig EXCEPT !.odds = Str(<<"5", "0">>), !.oddsType = "implied"],
   [BaseConfig EXCEPT !.bankroll = Num(10)],
   [BaseConfig EXCEPT !.bankroll = Num(10000), !.maxRounds = Num(5),
                      !.betMultiplier = Num(3)],
   [BaseConfig EXCEPT !.targetProfit = Num(50)],
   [BaseConfig EXCEPT !.maxTableLimit = Num(500)]}

Configs ==
  ValidationConfigs \cup EvenConfigs \cup OtherConfigs \cup FallbackConfigs
    \cup LongOddsConfigs \cup TestScriptConfigs \cup FirstStakeConfigs

\* The summary before simulateMartingaleSessions has built one
NoSummary ==
  [totalSessions |-> Zero, wins |-> 0, losses |-> 0, winRate |-> Zero,
   averageProfit |-> Zero, maxProfit |-> Zero, maxLoss |-> Zero,
   profitableSessions |-> 0]

\* calculateMartingaleProgression is called on its own: no simulation and no
\* risk advisory is running
NoCaller ==
  /\ ret = "none"
  /\ builds = 0
  /\ numSessions = Undefined
  /\ session = 0
  /\ results = <<>>
  /\ summary = NoSummary
  /\ roundIndex = 0
  /\ draws = <<>>
  /\ statsArg = NoStatistics
  /\ formatted = Undefined
  /\ warnings = <<>>

\* ------------------------------------------------------ the specifications

Init ==
  /\ pc = "start"
  /\ config \in Configs
  /\ decimalOdds = Zero
  /\ winProbability = Zero
  /\ lossProbability = Zero
  /\ progression = <<>>
  /\ currentBet = Zero
  /\ totalLoss = Zero
  /\ totalWagered = Zero
  /\ round = 0
  /\ remainingBankroll = Zero
  /\ statistics = NoStatistics
  /\ error = ""
  /\ NoCaller

Next ==
  \/ Validate
  \/ LoopExit
  \/ StopUnaffordable
  \/ StopTableLimit
  \/ EmitRound
  \/ Finish

\* calculateMartingaleProgression(config) for every configuration of Configs
Spec == Init /\ [][Next]_vars

\* A step of the running call as the control variables show it: Next is
\* enabled exactly at the positions start, loop and stats, and each of its
\* steps changes pc or moves the loop to its next round.
Advance ==
  /\ pc \in {"start", "loop", "stats"}
  /\ pc' \in {"error", "loop", "stats", "done"}
  /\ round' \in {round, round + 1}
  /\ <<pc', round'>> # <<pc, round>>

\* The call runs to its end: it is synchronous and nothing suspends it
FairSpec == Spec /\ WF_<<pc, round>>(Advance)

\* convertToDecimal(odds, type) applied to every input of OddsInputs
InitConv ==
  /\ pc = "convert"
  /\ config \in {[BaseConfig EXCEPT !.odds = od, !.oddsType = ty] :
                   od \in OddsInputs, ty \in OddsTypes}
  /\ decimalOdds = Zero
  /\ winProbability = Zero
  /\ lossProbability = Zero
  /\ progression = <<>>
  /\ currentBet = Zero
  /\ totalLoss = Zero
  /\ totalWagered = Zero
  /\ round = 0
  /\ remainingBankroll = Zero
  /\ statistics = NoStatistics
  /\ error = ""
  /\ NoCaller

Convert ==
  /\ pc = "convert"
  /\ decimalOdds' = convertToDecimal(config.odds, config.oddsType)
  /\ pc' = "converted"
  /\ UNCHANGED <<config, winProbability, lossProbability, progression, locals,
                 statistics, error, callVars, builds>>

NextConv == Convert

SpecConv == InitConv /\ [][NextConv]_vars

\* -------------------------------------------- simulateMartingaleSessions

\* Line 251: numSessions > 100000
SessionLimit == 100000

\* Line 251: the message thrown for numSessions n, "" when none is
SessionsError(n) ==
  IF ~TypeofNumber(n) \/ JsLe(n, Zero) \/ JsGt(n, Num(SessionLimit)) \/ ~isFinite(n)
    THEN "Number of sessions must be between 1 and 100,000"
  ELSE ""

\* Lines 249-256: the argument is validated and the progression is built
SimulateStart ==
  /\ pc = "simulate"
  /\ IF SessionsError(numSessions) # ""
       THEN /\ pc' = "simerror"
            /\ error' = SessionsError(numSessions)
            /\ UNCHANGED ret
       ELSE /\ pc' = "start"
            /\ ret' = "simulate"
            /\ UNCHANGED error
  /\ UNCHANGED <<config, decimalOdds, winProbability, lossProbability, progression,
                 locals, statistics, builds, numSessions, session, results,
                 summary, roundIndex, draws, statsArg, formatted, warnings>>

\* Line 261: the message thrown for win probability p, "" when none is
SimulationProbabilityError(p) ==
  IF ~isFinite(p) \/ JsLe(p, Zero) \/ JsGt(p, Num(1))
    THEN "Invalid win probability for simulation"
  ELSE ""

\* Lines 257-265: the progression call has returned; the win probability is
\* derived again from its decimal odds and validated, and the loop starts
AfterBuild ==
  /\ pc = "done"
  /\ ret = "simulate"
  /\ winProbability' = JsDiv(decimalToImpliedProbability(decimalOdds), Num(100))
  /\ IF SimulationProbabilityError(winProbability') # ""
       THEN /\ pc' = "simerror"
            /\ error' = SimulationProbabilityError(winProbability')
       ELSE /\ pc' = "sessions"
            /\ UNCHANGED error
  /\ session' = 0
  /\ UNCHANGED <<config, decimalOdds, lossProbability, progression, locals,
                 statistics, ret, builds, numSessions, results, summary,
                 roundIndex, draws, statsArg, formatted, warnings>>

\* Lines 265-266 and 294: the next session starts; simulateSingleSession
\* calls calculateMartingaleProgression(config) for its own progression
SessionStart ==
  /\ pc = "sessions"
  /\ JsLt(Num(session), numSessions)
  /\ pc' = "start"
  /\ ret' = "session"
  /\ UNCHANGED <<config, decimalOdds, winProbability, lossProbability, progression,
                 locals, statistics, error, builds, numSessions, session, results,
                 summary, roundIndex, draws, statsArg, formatted, warnings>>

\* Line 296: let i = 0
SessionBegin ==
  /\ pc = "done"
  /\ ret = "session"
  /\ pc' = "draw"
  /\ roundIndex' = 0
  /\ draws' = <<>>
  /\ UNCHANGED <<config, decimalOdds, winProbability, lossProbability, progression,
                 locals, statistics, error, ret, builds, numSessions, session,
                 results, summary, statsArg, formatted, warnings>>

\* Lines 300-305: the record of a session won at the round with index i
WonRecord(rounds, i) ==
  [won |-> TRUE, roundsPlayed |-> i + 1,
   profit |-> rounds[i + 1].netProfitIfWin,
   totalWagered |-> rounds[i + 1].totalWagered]

\* Lines 311-316: the record of a session that lost every round
LostRecord(rounds) ==
  [won |-> FALSE, roundsPlayed |-> Len(rounds),
   profit |-> JsNeg(rounds[Len(rounds)].totalWagered),
   totalWagered |-> rounds[Len(rounds)].totalWagered]

\* The values Math.random() returns, all in [0, 1)
Randoms == {Zero, Rat(1, 2), Rat(9, 10)}

\* Line 298: random < winProbability
Wins(random, p) == JsLt(random, p)

\* Lines 296-306: one round of the session: a draw, and the session is won
\* or the next round follows
DrawRound ==
  /\ pc = "draw"
  /\ roundIndex < Len(progression)
  /\ \E random \in Randoms :
       /\ draws' = Append(draws, random)
       /\ IF Wins(random, winProbability)
            THEN /\ results' = Append(results, WonRecord(progression, roundIndex))
                 /\ session' = session + 1
                 /\ pc' = "sessions"
                 /\ UNCHANGED roundIndex
            ELSE /\ roundIndex' = roundIndex + 1
                 /\ pc' = "draw"
                 /\ UNCHANGED <<results, session>>
  /\ UNCHANGED <<config, decimalOdds, winProbability, lossProbability, progression,
                 locals, statistics, error, ret, builds, numSessions, summary,
                 statsArg, formatted, warnings>>

\* Lines 309-316: every round was lost; lastRound is undefined when the
\* progression is empty and reading its totalWagered throws a TypeError
LoseAll ==
  /\ pc = "draw"
  /\ roundIndex >= Len(progression)
  /\ IF Len(progression) = 0
       THEN /\ pc' = "simerror"
            /\ error' = "TypeError: Cannot read properties of undefined"
            /\ UNCHANGED <<results, session>>
       ELSE /\ results' = Append(results, LostRecord(progression))
            /\ session' = session + 1
            /\ pc' = "sessions"
            /\ UNCHANGED error
  /\ UNCHANGED <<config, decimalOdds, winProbability, lossProbability, progression,
                 locals, statistics, ret, builds, numSessions, summary, roundIndex,
                 draws, statsArg, formatted, warnings>>

\* Lines 272, 273 and 285: the lengths of the filtered lists
winsOf(rs) == Cardinality({i \in 1..Len(rs) : rs[i].won})
lossesOf(rs) == Cardinality({i \in 1..Len(rs) : ~rs[i].won})
profitableOf(rs) == Cardinality({i \in 1..Len(rs) : JsGt(rs[i].profit, Zero)})

\* profits.reduce((a, b) => a + b, 0) over the first k records
RECURSIVE SumProfit(_, _)
SumProfit(rs, k) == IF k = 0 THEN Zero ELSE JsAdd(SumProfit(rs, k - 1), rs[k].profit)

\* Math.max(...profits) and Math.min(...profits) over the first k records
RECURSIVE MaxProfit(_, _)
MaxProfit(rs, k) == IF k = 0 THEN NegInf ELSE MathMax(MaxProfit(rs, k - 1), rs[k].profit)

RECURSIVE MinProfit(_, _)
MinProfit(rs, k) == IF k = 0 THEN PosInf ELSE MathMin(MinProfit(rs, k - 1), rs[k].profit)

\* Lines 271-286: the summary of the sessions simulated
summaryOf(rs, n) ==
  [totalSessions |-> n,
   wins |-> winsOf(rs),
   losses |-> lossesOf(rs),
   winRate |-> JsMul(JsDiv(Num(winsOf(rs)), n), Num(100)),
   averageProfit |-> JsDiv(SumProfit(rs, Len(rs)), n),
   maxProfit |-> MaxProfit(rs, Len(rs)),
   maxLoss |-> MinProfit(rs, Len(rs)),
   profitableSessions |-> profitableOf(rs)]

\* Lines 265 and 270-287: the loop condition fails and the summary is returned
Summarise ==
  /\ pc = "sessions"
  /\ ~JsLt(Num(session), numSessions)
  /\ summary' = summaryOf(results, numSessions)
  /\ pc' = "simdone"
  /\ UNCHANGED <<config, decimalOdds, winProbability, lossProbability, progression,
                 locals, statistics, error, ret, builds, numSessions, session,
                 results, roundIndex, draws, statsArg, formatted, warnings>>

\* The numSessions arguments: in range, out of range and no numbers (an
\* absent argument is the default of line 249, 1000, a value in range)
SessionInputs ==
  {Num(-1), Zero, Rat(1, 2), Num(1), Num(2), Rat(5, 2), Num(SessionLimit + 1),
   NaN, PosInf, NegInf, Str(<<"2">>)} \cup {Num(k) : k \in 1..MaxSessions}

\* Configurations whose progressions have 0, 1, 2 and 3 rounds at decimal
\* odds 2, 3 and 1.5, one stopped by maxRounds, one by the table limit, and
\* one that calculateMartingaleProgression rejects
SimConfigs ==
  {[BaseConfig EXCEPT !.bankroll = k, !.odds = od[1], !.oddsType = od[2]] :
     k \in {Num(5), Num(10), Num(30), Num(70)},
     od \in {<<Str(<<"2", ".", "0", "0">>), "decimal">>, <<Num(3), "decimal">>,
             <<Str(<<"-", "2", "0", "0">>), "american">>}}
    \cup {[BaseConfig EXCEPT !.bankroll = Num(70), !.maxRounds = Num(1)],
          [BaseConfig EXCEPT !.bankroll = Num(70), !.maxTableLimit = Num(15)],
          [BaseConfig EXCEPT !.baseBet = Zero]}

\* simulateMartingaleSessions(config, numSessions) is called
InitSim ==
  /\ pc = "simulate"
  /\ config \in SimConfigs
  /\ numSessions \in SessionInputs
  /\ decimalOdds = Zero
  /\ winProbability = Zero
  /\ lossProbability = Zero
  /\ progression = <<>>
  /\ currentBet = Zero
  /\ totalLoss = Zero
  /\ totalWagered = Zero
  /\ round = 0
  /\ remainingBankroll = Zero
  /\ statistics = NoStatistics
  /\ error = ""
  /\ ret = "none"
  /\ builds = 0
  /\ session = 0
  /\ results = <<>>
  /\ summary = NoSummary
  /\ roundIndex = 0
  /\ draws = <<>>
  /\ statsArg = NoStatistics
  /\ formatted = Undefined
  /\ warnings = <<>>

NextSim ==
  \/ SimulateStart
  \/ Validate
  \/ LoopExit
  \/ StopUnaffordable
  \/ StopTableLimit
  \/ EmitRound
  \/ Finish
  \/ AfterBuild
  \/ SessionStart
  \/ SessionBegin
  \/ DrawRound
  \/ LoseAll
  \/ Summarise

SpecSim == InitSim /\ [][NextSim]_vars

\* -------------------------------------------------- generateRiskWarnings

\* x.toFixed(f) of a number x: the decimal numeral of the integer n for which
\* n / 10^f is nearest to x, the larger n on a tie, kept as that integer and
\* the number of fraction digits; the words NaN and Infinity otherwise
toFixed(x, f) ==
  IF IsFin(x)
    THEN [units |-> ((2 * x.n * Pow10(f) + x.d) \div (2 * x.d)), digits |-> f,
          word |-> ""]
  ELSE [units |-> 0, digits |-> f,
        word |-> IF IsNaNv(x) THEN "NaN"
                 ELSE IF Sign(x) > 0 THEN "Infinity" ELSE "-Infinity"]

\* Lines 326-331
HighRiskWarning(st) ==
  IF JsGt(st.bustProbability, Num(10))
    THEN <<[type |-> "high-risk",
            message |-> [text |-> "High risk of losing entire bankroll: {}%",
                         args |-> <<toFixed(st.bustProbability, 1)>>]]>>
  ELSE <<>>

\* Lines 334-339
BankrollWarning(c, st) ==
  IF JsLt(c.bankroll, st.recommendedBankroll)
    THEN <<[type |-> "bankroll",
            message |-> [text |-> "Recommended bankroll: ${} (you have ${})",
                         args |-> <<toFixed(st.recommendedBankroll, 2),
                                    toFixed(c.bankroll, 2)>>]]>>
  ELSE <<>>

\* Lines 342-347
NegativeEvWarning(st) ==
  IF JsLt(st.expectedValue, Zero)
    THEN <<[type |-> "negative-ev",
            message |-> [text |-> "Negative expected value: ${} per session",
                         args |-> <<toFixed(st.expectedValue, 2)>>]]>>
  ELSE <<>>

\* Lines 350-355
KellyWarning(st) ==
  IF JsEq(st.kellyCriterion, Zero)
    THEN <<[type |-> "kelly",
            message |-> [text |-> "Kelly criterion suggests not betting - unfavorable odds",
                         args |-> <<>>]]>>
  ELSE <<>>

\* Line 359: Math.max(...progression.map(r => r.betAmount)) over the first k
\* rounds, -Infinity for none
RECURSIVE maxBetOf(_, _)
maxBetOf(rounds, k) ==
  IF k = 0 THEN NegInf ELSE MathMax(maxBetOf(rounds, k - 1), rounds[k].betAmount)

\* The whole bankroll in the place of its half
WholeBankroll(c) == c.bankroll

\* Line 360: config.bankroll * 0.5
HalfBankroll(c) == JsMul(c.bankroll, Rat(1, 2))

\* Lines 360-365
LargeBetWarning(c, maxBet) ==
  IF JsGt(maxBet, HalfBankroll(c))
    THEN <<[type |-> "large-bet",
            message |-> [text |-> "Maximum bet ({}) exceeds 50% of bankroll",
                         args |-> <<toFixed(maxBet, 2)>>]]>>
  ELSE <<>>

\* Lines 322-358: the four checks on the statistics, then the call of
\* calculateMartingaleProgression(config)
WarnStart ==
  /\ pc = "warn"
  /\ warnings' = HighRiskWarning(statsArg) \o BankrollWarning(config, statsArg)
                   \o NegativeEvWarning(statsArg) \o KellyWarning(statsArg)
  /\ pc' = "start"
  /\ ret' = "warn"
  /\ UNCHANGED <<config, decimalOdds, winProbability, lossProbability, progression,
                 locals, statistics, error, builds, numSessions, session, results,
                 summary, roundIndex, draws, statsArg, formatted>>

\* Lines 358-367: the progression call has returned; the largest bet is
\* compared with half the bankroll and the warnings are returned
WarnFinish ==
  /\ pc = "done"
  /\ ret = "warn"
  /\ warnings' = warnings \o LargeBetWarning(config, maxBetOf(progression, Len(progression)))
  /\ pc' = "warned"
  /\ UNCHANGED <<config, decimalOdds, winProbability, lossProbability, progression,
                 locals, statistics, error, ret, builds, numSessions, session,
                 results, summary, roundIndex, draws, statsArg, formatted>>

\* The statistics argument: every field at, below and above the threshold of
\* its check, NaN included
WarnStatistics ==
  {[NoStatistics EXCEPT !.bustProbability = b, !.recommendedBankroll = r,
                        !.expectedValue = e, !.kellyCriterion = k] :
     b \in {Num(5), Num(10), Rat(201, 20), Num(50), NaN},
     r \in {Num(20), Num(30), Num(200)},
     e \in {Num(-1), Rat(-1, 1000), Zero, Num(1)},
     k \in {Zero, Num(25)}}

\* The configurations of the simulation and one whose only bet is exactly
\* half the bankroll
WarnConfigs ==
  SimConfigs \cup {[BaseConfig EXCEPT !.bankroll = Num(20), !.maxRounds = Num(1)]}

\* generateRiskWarnings(config, statistics) is called
InitWarn ==
  /\ pc = "warn"
  /\ config \in WarnConfigs
  /\ statsArg \in WarnStatistics
  /\ formatted = Undefined
  /\ decimalOdds = Zero
  /\ winProbability = Zero
  /\ lossProbability = Zero
  /\ progression = <<>>
  /\ currentBet = Zero
  /\ totalLoss = Zero
  /\ totalWagered = Zero
  /\ round = 0
  /\ remainingBankroll = Zero
  /\ statistics = NoStatistics
  /\ error = ""
  /\ ret = "none"
  /\ builds = 0
  /\ numSessions = Undefined
  /\ session = 0
  /\ results = <<>>
  /\ summary = NoSummary
  /\ roundIndex = 0
  /\ draws = <<>>
  /\ warnings = <<>>

NextWarn ==
  \/ WarnStart
  \/ Validate
  \/ LoopExit
  \/ StopUnaffordable
  \/ StopTableLimit
  \/ EmitRound
  \/ Finish
  \/ WarnFinish

SpecWarn == InitWarn /\ [][NextWarn]_vars

\* ------------------------------------------- the simulation over the odds

\* One configuration per odds input and recognized odds type
OddsConfigs ==
  {[BaseConfig EXCEPT !.bankroll = Num(10), !.odds = od, !.oddsType = ty,
                      !.maxRounds = Num(1)] :
     od \in OddsInputs, ty \in OddsTypes}

\* simulateMartingaleSessions(config, numSessions) as in InitSim, and with one
\* session for every configuration of OddsConfigs
InitOdds ==
  /\ pc = "simulate"
  /\ \/ config \in SimConfigs /\ numSessions \in SessionInputs
     \/ config \in OddsConfigs /\ numSessions = Num(1)
  /\ decimalOdds = Zero
  /\ winProbability = Zero
  /\ lossProbability = Zero
  /\ progression = <<>>
  /\ currentBet = Zero
  /\ totalLoss = Zero
  /\ totalWagered = Zero
  /\ round = 0
  /\ remainingBankroll = Zero
  /\ statistics = NoStatistics
  /\ error = ""
  /\ ret = "none"
  /\ builds = 0
  /\ session = 0
  /\ results = <<>>
  /\ summary = NoSummary
  /\ roundIndex = 0
  /\ draws = <<>>
  /\ statsArg = NoStatistics
  /\ formatted = Undefined
  /\ warnings = <<>>

NextOdds ==
  \/ SimulateStart
  \/ Validate
  \/ LoopExit
  \/ StopUnaffordable
  \/ StopTableLimit
  \/ EmitRound
  \/ Finish
  \/ AfterBuild
  \/ SessionStart
  \/ SessionBegin
  \/ DrawRound
  \/ LoseAll
  \/ Summarise

SpecOdds == InitOdds /\ [][NextOdds]_vars

\* ------------------------------------------- the report of a configuration

\* The callers of generateRiskWarnings (the test script, App.js and
\* RiskWarnings.js) pass the statistics calculateMartingaleProgression has
\* just returned for the same configuration
Report ==
  /\ pc = "done"
  /\ ret = "none"
  /\ statsArg' = statistics
  /\ pc' = "warn"
  /\ UNCHANGED <<config, decimalOdds, winProbability, lossProbability, progression,
                 locals, statistics, error, ret, builds, numSessions, session,
                 results, summary, roundIndex, draws, formatted, warnings>>

\* betMultiplier, maxRounds, targetProfit and maxTableLimit are not validated:
\* values a caller may pass that are no multiplier, cap, target or limit
UncheckedConfigs ==
  {[BaseConfig EXCEPT !.bankroll = k, !.odds = od[1], !.oddsType = od[2],
                      !.maxRounds = mr, !.targetProfit = tp,
                      !.betMultiplier = bm, !.maxTableLimit = tl] :
     k \in {Num(10), Num(1000)},
     od \in {<<Str(<<"2", ".", "0", "0">>), "decimal">>, <<Num(3), "decimal">>,
             <<Str(<<"-", "2", "0", "0">>), "american">>},
     mr \in {Num(3), Zero, NaN},
     tp \in {Undefined, Num(-5), NaN},
     bm \in {Zero, Num(-2), Rat(1, 2), NaN, NegInf},
     tl \in {Undefined, Num(-1), NaN}}

\* The configuration of a report
InitReport ==
  /\ pc = "start"
  /\ config \in Configs \cup UncheckedConfigs
  /\ decimalOdds = Zero
  /\ winProbability = Zero
  /\ lossProbability = Zero
  /\ progression = <<>>
  /\ currentBet = Zero
  /\ totalLoss = Zero
  /\ totalWagered = Zero
  /\ round = 0
  /\ remainingBankroll = Zero
  /\ statistics = NoStatistics
  /\ error = ""
  /\ NoCaller

NextReport ==
  \/ Validate
  \/ LoopExit
  \/ StopUnaffordable
  \/ StopTableLimit
  \/ EmitRound
  \/ Finish
  \/ Report
  \/ WarnStart
  \/ WarnFinish

\* calculateMartingaleProgression(config), then generateRiskWarnings(config,
\* results.statistics), for every configuration of Configs and UncheckedConfigs
SpecReport == InitReport /\ [][NextReport]_vars

\* ------------------------------------------------------------ formatOdds

\* Math.round(x): the integer nearest to x, the larger one on a tie
MathRound(x) == IF IsFin(x) THEN Num((2 * x.n + x.d) \div (2 * x.d)) ELSE x

\* a % b of whole numbers a and b # 0: the remainder has the sign of a
JsRem(a, b) == Num(Sign(a) * (Abs(a.n) % Abs(b.n)))

\* decimalToAmerican without the sign of the odds below 2
decimalToAmericanPositive(decimal) ==
  IF JsGe(decimal, Num(2))
    THEN MathRound(JsMul(JsSub(decimal, Num(1)), Num(100)))
  ELSE MathRound(JsDiv(Num(100), JsSub(decimal, Num(1))))

\* Lines 389-395
decimalToAmerican(decimal) ==
  IF JsGe(decimal, Num(2))
    THEN MathRound(JsMul(JsSub(decimal, Num(1)), Num(100)))
  ELSE MathRound(JsDiv(Num(-100), JsSub(decimal, Num(1))))

\* Line 459: const gcd = (a, b) => b === 0 ? a : gcd(b, a % b), of whole numbers
RECURSIVE gcd(_, _)
gcd(a, b) == IF JsEq(b, Zero) THEN a ELSE gcd(b, JsRem(a, b))

\* The decimal numeral of the natural number n
RECURSIVE NatText(_)
NatText(n) ==
  IF n < 10 THEN <<Digits[n + 1]>> ELSE NatText(n \div 10) \o <<Digits[(n % 10) + 1]>>

\* `${x}` of a number x that is whole, NaN or infinite
NumberToString(x) ==
  CASE IsNaNv(x) -> <<"N", "a", "N">>
    [] IsInf(x) -> (IF Sign(x) > 0 THEN <<>> ELSE <<"-">>) \o InfinityWord
    [] OTHER -> (IF x.n < 0 THEN <<"-">> ELSE <<>>) \o NatText(Abs(x.n))

\* Lines 461-468 of decimalToFractional, for the rounded numerator
fractionalText(numerator, divisor) ==
  Str(NumberToString(JsDiv(numerator, divisor)) \o <<"/">>
        \o NumberToString(JsDiv(Num(100), divisor)))

\* Lines 457-469; the recursion of gcd does not end on NaN, which no
\* remainder turns into 0, and the call throws a RangeError
decimalToFractional(decimal) ==
  IF ~IsFin(decimal) THEN Thrown
  ELSE fractionalText(MathRound(JsMul(JsSub(decimal, Num(1)), Num(100))),
                      gcd(MathRound(JsMul(JsSub(decimal, Num(1)), Num(100))), Num(100)))

\* The digits of the natural number n, with zeros in front up to w digits
RECURSIVE Padded(_, _)
Padded(ds, w) == IF Len(ds) >= w THEN ds ELSE Padded(<<"0">> \o ds, w)

\* The text of x.toFixed(f): the digits with the point f places from the end
FixedDigits(sign, ds, f) ==
  sign \o SubSeq(ds, 1, Len(ds) - f)
       \o (IF f > 0 THEN <<".">> \o SubSeq(ds, Len(ds) - f + 1, Len(ds)) ELSE <<>>)

toFixedText(x, f) ==
  IF ~IsFin(x) THEN NumberToString(x)
  ELSE FixedDigits(IF toFixed(x, f).units < 0 THEN <<"-">> ELSE <<>>,
                   Padded(NatText(Abs(toFixed(x, f).units)), f + 1), f)

\* Lines 541-543: `+${american}` or `${american}`
americanText(american) ==
  Str((IF JsGt(american, Zero) THEN <<"+">> ELSE <<>>) \o NumberToString(american))

\* Lines 537-551
formatOdds(decimal, targetType) ==
  CASE targetType = "decimal" -> Str(toFixedText(decimal, 2))
    [] targetType = "american" -> americanText(decimalToAmerican(decimal))
    [] targetType = "fractional" -> decimalToFractional(decimal)
    [] targetType = "implied" ->
         Str(toFixedText(decimalToImpliedProbability(decimal), 1) \o <<"%">>)
    [] OTHER -> Str(toFixedText(decimal, 2))

\* formatOdds(convertToDecimal(odds, type), type): the converted odds are
\* formatted in the type they came in
Format ==
  /\ pc = "converted"
  /\ formatted' = formatOdds(decimalOdds, config.oddsType)
  /\ pc' = "formatted"
  /\ UNCHANGED <<config, decimalOdds, winProbability, lossProbability, progression,
                 locals, statistics, error, ret, builds, numSessions, session,
                 results, summary, roundIndex, draws, statsArg, warnings>>

\* Odds of each type at the edges of its valid domain
RoundTripOdds ==
  {Str(<<"1", "/", "3">>), Str(<<"1", "/", "5", "0", "0">>), Str(<<"1", "0", "/", "1">>),
   Str(<<"2", "/", "1", "1">>), Str(<<"-", "1", "0", "0", "0", "0">>),
   Str(<<"-", "1", "0", "0", "0", "1">>), Str(<<"-", "1", "5", "0">>),
   Str(<<"3", "3", ".", "3">>), Str(<<"9", "9", ".", "0", "1">>),
   Str(<<"2", ".", "5", "6", "7">>), Str(<<"1", ".", "0", "0", "5">>),
   Num(100), Num(-100), Num(-150), Num(99), Rat(995, 10), Rat(2567, 1000)}

InitTrip ==
  /\ pc = "convert"
  /\ config \in {[BaseConfig EXCEPT !.odds = od, !.oddsType = ty] :
                   od \in OddsInputs \cup RoundTripOdds, ty \in OddsTypes}
  /\ decimalOdds = Zero
  /\ winProbability = Zero
  /\ lossProbability = Zero
  /\ progression = <<>>
  /\ currentBet = Zero
  /\ totalLoss = Zero
  /\ totalWagered = Zero
  /\ round = 0
  /\ remainingBankroll = Zero
  /\ statistics = NoStatistics
  /\ error = ""
  /\ NoCaller

NextTrip ==
  \/ Convert
  \/ Format

SpecTrip == InitTrip /\ [][NextTrip]_vars

\* The values the statistics are computed from, within and outside their
\* ranges: bankroll, baseBet, decimal odds and win probability
StatBankrolls == {Num(-5), Zero, Num(1), Rat(7, 2), Num(5), Num(10)}
StatBaseBets == {Num(-1), Zero, Num(1), Rat(3, 2), Num(2)}
StatOdds == {Rat(1, 2), Num(1), Rat(101, 100), Rat(3, 2), Num(2), Num(3), Num(10)}
StatProbabilities ==
  {Rat(-1, 2), Zero, Rat(1, 5), Rat(1, 4), Rat(1, 3), Rat(1, 2), Rat(2, 3),
   Rat(3, 4), Num(1), Rat(3, 2)}

\* calculateStatistics entered with an empty progression and every
\* combination of those values
InitStats ==
  /\ pc = "stats"
  /\ config \in {[BaseConfig EXCEPT !.bankroll = k, !.baseBet = b] :
                    k \in StatBankrolls, b \in StatBaseBets}
  /\ decimalOdds \in StatOdds
  /\ winProbability \in StatProbabilities
  /\ lossProbability = JsSub(Num(1), winProbability)
  /\ progression = <<>>
  /\ currentBet = config.baseBet
  /\ totalLoss = Zero
  /\ totalWagered = Zero
  /\ round = 1
  /\ remainingBankroll = config.bankroll
  /\ statistics = NoStatistics
  /\ error = ""
  /\ NoCaller

NextStats == Finish

SpecStats == InitStats /\ [][NextStats]_vars

\* ------------------------------------------------------------ the claims

PositiveFinite(x) == x.k = "fin" /\ x.n > 0
Rounds == 1..Len(progression)
Stopped == pc \in {"stats", "done"}

\* A configuration within the data model: positive finite stake and bankroll,
\* a recognised odds type, odds given as a number or a string, and the
\* optional fields absent or in range.
ValidConfiguration(c) ==
  /\ c.obj
  /\ PositiveFinite(c.baseBet)
  /\ PositiveFinite(c.bankroll)
  /\ c.oddsType \in {"decimal", "american", "fractional", "implied"}
  /\ c.odds.k \in {"fin", "inf", "nan", "str"}
  /\ c.maxRounds = Undefined \/ (PositiveFinite(c.maxRounds) /\ c.maxRounds.d = 1)
  /\ c.betMultiplier = Undefined
       \/ (c.betMultiplier.k = "fin" /\ c.betMultiplier.n >= c.betMultiplier.d)
  /\ c.targetProfit = Undefined \/ PositiveFinite(c.targetProfit)
  /\ c.maxTableLimit = Undefined \/ PositiveFinite(c.maxTableLimit)

\* C1: convertToDecimal is total: for every number or string, well formed or
\* not, and each of the four odds types it returns a finite number >= 1.01 and
\* raises nothing.
C1_ConvertTotal ==
  pc = "converted" =>
    /\ decimalOdds # Thrown
    /\ decimalOdds.k = "fin"
    /\ decimalOdds.n * 100 >= 101 * decimalOdds.d

\* C1 witness: a number handed over as fractional odds (split raises inside
\* the converter) has been converted.
C1_Witness ==
  /\ pc = "converted"
  /\ config.oddsType = "fractional"
  /\ config.odds.k = "fin"
  /\ decimalOdds = Norm(101, 100)

\* C2: whenever baseBet or bankroll is no finite number > 0, or oddsType is
\* none of the four kinds, the call raises and computes nothing.
C2_RejectsInvalid ==
  (/\ pc # "start"
   /\ pc # "convert"
   /\ \/ ~PositiveFinite(config.baseBet)
      \/ ~PositiveFinite(config.bankroll)
      \/ config.oddsType \notin {"decimal", "american", "fractional", "implied"})
  => /\ pc = "error"
     /\ error # ""
     /\ progression = <<>>
     /\ statistics = NoStatistics

\* C2 witness: a NaN stake, which is a number and not <= 0, has been rejected.
C2_Witness ==
  /\ pc = "error"
  /\ config.obj
  /\ config.baseBet = NaN
  /\ error = "Base bet must be a positive number"

RoundFinite(r) ==
  /\ isFinite(r.betAmount)
  /\ isFinite(r.cumulativeLoss)
  /\ isFinite(r.totalWagered)
  /\ isFinite(r.potentialWin)
  /\ isFinite(r.netProfitIfWin)
  /\ isFinite(r.totalReturnIfWin)
  /\ isFinite(r.remainingBankroll)

StatisticsFinite(s) ==
  /\ isFinite(s.bustProbability)
  /\ isFinite(s.winProbabilityAtLeastOnce)
  /\ isFinite(s.expectedValue)
  /\ isFinite(s.riskOfRuin)
  /\ isFinite(s.maxDrawdown)
  /\ isFinite(s.kellyCriterion)
  /\ isFinite(s.recommendedBankroll)
  /\ isFinite(s.averageProfit)
  /\ isFinite(s.worstCaseScenario)

\* C3: for every valid configuration, every numeric field of every round and
\* of the statistics returned is finite.
C3_AllFinite ==
  (pc = "done" /\ ValidConfiguration(config)) =>
    /\ \A i \in Rounds : RoundFinite(progression[i])
    /\ StatisticsFinite(statistics)

\* The cap on the number of rounds: maxRounds, 20 when it is absent
MaxRoundsOf(c) == IF c.maxRounds = Undefined THEN 20 ELSE c.maxRounds.n

\* C4: for every valid configuration the call halts, and the progression never
\* holds more than maxRounds rounds (20 when maxRounds is absent).
C4_HaltsWithinMaxRounds ==
  /\ <>(pc \in {"done", "error"})
  /\ [](ValidConfiguration(config) => Len(progression) <= MaxRoundsOf(config))

\* C4 witness: with maxRounds absent a progression of exactly 20 rounds has
\* been returned.
C4_Witness ==
  /\ pc = "done"
  /\ config.maxRounds = Undefined
  /\ Len(progression) = 20
  /\ ~JsGt(currentBet, remainingBankroll)

\* C5: every emitted stake is affordable: betAmount <= the bankroll left before
\* the round, remainingBankroll >= 0, totalWagered + remainingBankroll =
\* bankroll, and totalWagered (hence maxDrawdown) <= bankroll.
C5_Affordable ==
  /\ \A i \in Rounds :
       LET r == progression[i]
       IN /\ JsLe(r.betAmount, JsSub(config.bankroll, r.cumulativeLoss))
          /\ JsGe(r.remainingBankroll, Zero)
          /\ JsAdd(r.totalWagered, r.remainingBankroll) = config.bankroll
          /\ JsLe(r.totalWagered, config.bankroll)
  /\ pc = "done" => JsLe(statistics.maxDrawdown, config.bankroll)

\* C5 witness: the loop stopped, after two rounds or more, at a stake the
\* remaining bankroll cannot pay although the whole bankroll could.
C5_Witness ==
  /\ pc = "done"
  /\ Len(progression) >= 2
  /\ JsGt(currentBet, remainingBankroll)
  /\ JsLe(currentBet, config.bankroll)

\* C6: for betMultiplier > 1, from each round to the next betAmount strictly
\* increases, cumulativeLoss and totalWagered do not decrease, and
\* remainingBankroll does not increase.
C6_Monotone ==
  JsGt(betMultiplier, Norm(1, 1)) =>
    \A i \in Rounds : i < Len(progression) =>
      LET a == progression[i]
          b == progression[i + 1]
      IN /\ JsLt(a.betAmount, b.betAmount)
         /\ JsLe(a.cumulativeLoss, b.cumulativeLoss)
         /\ JsLe(a.totalWagered, b.totalWagered)
         /\ JsGe(a.remainingBankroll, b.remainingBankroll)

\* C6 witness: three rounds or more have been emitted with multiplier 3/2.
C6_Witness ==
  /\ pc = "done"
  /\ betMultiplier = Norm(3, 2)
  /\ Len(progression) >= 3

LimitConfigured == PositiveFinite(config.maxTableLimit)

\* C7: with a table limit configured no emitted round stakes more than the
\* limit, and a stake above the limit ends the loop with no round emitted.
C7_TableLimit ==
  /\ [](LimitConfigured =>
          \A i \in Rounds : ~JsGt(progression[i].betAmount, config.maxTableLimit))
  /\ [][(pc = "loop" /\ LimitConfigured /\ JsGt(currentBet, config.maxTableLimit))
          => (pc' = "stats" /\ progression' = progression)]_vars

\* C7 witness: the loop stopped at an affordable stake above the table limit,
\* within maxRounds, after a round had been emitted.
C7_Witness ==
  /\ pc = "stats"
  /\ LimitConfigured
  /\ Len(progression) >= 1
  /\ JsGt(currentBet, config.maxTableLimit)
  /\ JsLe(currentBet, remainingBankroll)
  /\ round <= MaxRoundsOf(config)

TargetConfigured == PositiveFinite(config.targetProfit)

\* C8: with a target profit configured, a round whose netProfitIfWin reaches
\* the target is the last one and ends the loop; targetMet tells whether the
\* target is reached, so it is false on every round before the last.
C8_StopsAtTarget ==
  TargetConfigured =>
    \A i \in Rounds :
      LET r == progression[i]
      IN /\ r.targetMet <=> JsGe(r.netProfitIfWin, config.targetProfit)
         /\ JsGe(r.netProfitIfWin, config.targetProfit)
              => (i = Len(progression) /\ Stopped)
         /\ i < Len(progression) => ~r.targetMet

\* C8 witness: the third round reached the target exactly and the call
\* returned although stake, bankroll and maxRounds allowed a fourth round.
C8_Witness ==
  /\ pc = "done"
  /\ TargetConfigured
  /\ Len(progression) = 3
  /\ progression[3].netProfitIfWin = config.targetProfit
  /\ progression[3].targetMet
  /\ MaxRoundsOf(config) > 3
  /\ JsLe(JsMul(progression[3].betAmount, betMultiplier), remainingBankroll)
  /\ config.maxTableLimit = Undefined

\* The stakes of rounds 1..k added up
RECURSIVE StakeSum(_, _)
StakeSum(rounds, k) ==
  IF k = 0 THEN Zero ELSE JsAdd(StakeSum(rounds, k - 1), rounds[k].betAmount)

\* C9: the k-th round has round = k, betAmount = baseBet * betMultiplier^(k-1),
\* cumulativeLoss = the stakes of rounds 1..k-1, totalWagered = cumulativeLoss
\* + betAmount, potentialWin = betAmount * decimalOdds - betAmount,
\* netProfitIfWin = potentialWin - cumulativeLoss, breakeven = (netProfitIfWin >= 0).
C9_RoundAccounting ==
  \A k \in Rounds :
    LET r == progression[k]
    IN /\ r.round = k
       /\ r.betAmount = JsMul(config.baseBet, MathPow(betMultiplier, k - 1))
       /\ r.cumulativeLoss = StakeSum(progression, k - 1)
       /\ r.totalWagered = JsAdd(r.cumulativeLoss, r.betAmount)
       /\ r.potentialWin = JsSub(JsMul(r.betAmount, decimalOdds), r.betAmount)
       /\ r.netProfitIfWin = JsSub(r.potentialWin, r.cumulativeLoss)
       /\ r.breakeven <=> JsGe(r.netProfitIfWin, Zero)

\* C9 witness: three rounds at American odds -200 (decimal 1.5) and
\* multiplier 2, the third one a net loss even if won.
C9_Witness ==
  /\ pc = "done"
  /\ config.oddsType = "american"
  /\ decimalOdds = Norm(3, 2)
  /\ betMultiplier = Norm(2, 1)
  /\ Len(progression) = 3
  /\ progression[2].breakeven
  /\ ~progression[3].breakeven

\* C10: at decimal odds 2.00 with betMultiplier 2 the stake doubles every round
\* and netProfitIfWin is baseBet on every round; baseBet 10, bankroll 1000,
\* maxRounds 10 give the stakes 10, 20, 40, ... each with netProfitIfWin 10.
C10_EvenOddsDoubling ==
  /\ (pc \in {"loop", "stats", "done"} /\ decimalOdds = Norm(2, 1)
        /\ betMultiplier = Norm(2, 1)) =>
       \A i \in Rounds :
         /\ progression[i].netProfitIfWin = config.baseBet
         /\ i > 1 => progression[i].betAmount
                       = JsMul(Norm(2, 1), progression[i - 1].betAmount)
  /\ (pc = "done" /\ config = BaseConfig) =>
       /\ [i \in Rounds |-> progression[i].betAmount]
            = <<Norm(10, 1), Norm(20, 1), Norm(40, 1), Norm(80, 1),
                Norm(160, 1), Norm(320, 1)>>
       /\ \A i \in Rounds : progression[i].netProfitIfWin = Norm(10, 1)

\* C10 witness: the 'Standard case - 2.00 odds' configuration has returned
\* with its sixth round staking 320.
C10_Witness ==
  /\ pc = "done"
  /\ config = BaseConfig
  /\ Len(progression) = 6
  /\ progression[6].betAmount = Norm(320, 1)

\* Every step of Next is a step of Advance, so the fairness of FairSpec is
\* weak fairness of Next.
NextAdvances == [][Next => <<Advance>>_<<pc, round>>]_vars

\* C11: when bankroll equals baseBet, at decimal odds 2.00 with betMultiplier 2
\* and no table limit, the returned progression has exactly 1 round, whose
\* remainingBankroll is 0, and the second stake exceeds what remains.
C11_BankrollEqualsBaseBet ==
  (/\ pc = "done"
   /\ ValidConfiguration(config)
   /\ config.bankroll = config.baseBet
   /\ decimalOdds = Norm(2, 1)
   /\ betMultiplier = Norm(2, 1)
   /\ config.maxTableLimit = Undefined)
  => /\ Len(progression) = 1
     /\ progression[1].betAmount = config.baseBet
     /\ progression[1].remainingBankroll = Zero
     /\ JsGt(JsMul(progression[1].betAmount, betMultiplier),
             progression[1].remainingBankroll)

\* C11 witness: the 'Minimum bankroll' configuration (baseBet 10, bankroll 10,
\* odds '2.00', maxRounds 10) has returned, stopped by the unaffordable stake 20.
C11_Witness ==
  /\ pc = "done"
  /\ config = [BaseConfig EXCEPT !.bankroll = Norm(10, 1)]
  /\ Len(progression) = 1
  /\ currentBet = Norm(20, 1)
  /\ remainingBankroll = Zero
  /\ round = 2

\* The first stake cannot be placed: it exceeds the bankroll or the table limit
FirstStakeRefused ==
  \/ JsGt(config.baseBet, config.bankroll)
  \/ (PositiveFinite(config.maxTableLimit) /\ JsGt(config.baseBet, config.maxTableLimit))

\* C12: if the first stake is unaffordable or above the table limit, the call
\* returns without raising an empty round sequence and the neutral statistics:
\* maxPossibleRounds 0, bustProbability 100, winProbabilityAtLeastOnce 0,
\* expectedValue 0, maxDrawdown 0, averageProfit 0, worstCaseScenario 0.
C12_EmptyProgression ==
  (ValidConfiguration(config) /\ FirstStakeRefused /\ pc # "start") =>
    /\ pc # "error"
    /\ error = ""
    /\ progression = <<>>
    /\ pc = "done" =>
         /\ statistics.maxPossibleRounds = 0
         /\ statistics.bustProbability = Norm(100, 1)
         /\ statistics.winProbabilityAtLeastOnce = Zero
         /\ statistics.expectedValue = Zero
         /\ statistics.maxDrawdown = Zero
         /\ statistics.averageProfit = Zero
         /\ statistics.worstCaseScenario = Zero

\* C12 witness: a call whose first stake 10 is affordable but above the table
\* limit 5 has returned no rounds.
C12_Witness ==
  /\ pc = "done"
  /\ config.baseBet = Norm(10, 1)
  /\ config.bankroll = Norm(20, 1)
  /\ config.maxTableLimit = Norm(5, 1)
  /\ progression = <<>>
  /\ error = ""

\* C12 second witness: a call whose first stake 10 exceeds the bankroll 5 has
\* returned no rounds.
C12_WitnessUnaffordable ==
  /\ pc = "done"
  /\ config.bankroll = Norm(5, 1)
  /\ config.maxTableLimit = Undefined
  /\ progression = <<>>
  /\ statistics.bustProbability = Norm(100, 1)

\* b^k for integers
RECURSIVE IntPow(_, _)
IntPow(b, k) == IF k = 0 THEN 1 ELSE b * IntPow(b, k - 1)

\* x^k for a finite x, as one fraction
Power(x, k) == Norm(IntPow(x.n, k), IntPow(x.d, k))

\* C13: for a completed progression of n rounds, bustProbability =
\* 100 * lossProbability^n and bustProbability + winProbabilityAtLeastOnce = 100.
C13_BustProbability ==
  pc = "done" =>
    /\ statistics.maxPossibleRounds = Len(progression)
    /\ statistics.bustProbability
         = JsMul(Norm(100, 1), Power(lossProbability, Len(progression)))
    /\ JsAdd(statistics.bustProbability, statistics.winProbabilityAtLeastOnce)
         = Norm(100, 1)

\* C13 witness: three rounds at decimal odds 3 (lossProbability 2/3) have
\* returned with bustProbability 800/27.
C13_Witness ==
  /\ pc = "done"
  /\ lossProbability = Norm(2, 3)
  /\ Len(progression) = 3
  /\ statistics.bustProbability = Norm(800, 27)
  /\ statistics.winProbabilityAtLeastOnce = Norm(1900, 27)

\* The sum over rounds 1..k of lossProbability^(i-1) * winProbability *
\* netProfitIfWin of round i
RECURSIVE WinBranches(_, _, _, _)
WinBranches(rounds, p, q, k) ==
  IF k = 0 THEN Zero
  ELSE JsAdd(WinBranches(rounds, p, q, k - 1),
             JsMul(JsMul(Power(q, k - 1), p), rounds[k].netProfitIfWin))

\* The weighted sum of C14 for the rounds returned
WeightedSum(rounds, p, q) ==
  IF Len(rounds) = 0 THEN Zero
  ELSE JsAdd(WinBranches(rounds, p, q, Len(rounds)),
             JsMul(Power(q, Len(rounds)), JsNeg(rounds[Len(rounds)].totalWagered)))

\* C14: statistics.expectedValue equals the sum over the rounds of
\* lossProbability^i * winProbability * netProfitIfWin(i) plus
\* lossProbability^n * (-totalWagered(n-1)), and is 0 when there are no rounds.
C14_ExpectedValue ==
  pc = "done" =>
    statistics.expectedValue = WeightedSum(progression, winProbability, lossProbability)

\* The equality of C14 wherever every round's netProfitIfWin is finite
ExpectedValueOfFiniteRounds ==
  (pc = "done" /\ \A i \in Rounds : isFinite(progression[i].netProfitIfWin)) =>
    statistics.expectedValue = WeightedSum(progression, winProbability, lossProbability)

\* x < y for finite x and y, by cross-multiplication
Below(x, y) == x.n * y.d < y.n * x.d

\* The raw Kelly value (b*p - q)/b is negative, for b = decimalOdds - 1 > 0:
\* b*p < q
RawKellyNegative(odds, p) ==
  (odds.n - odds.d) * p.n * p.d < (p.d - p.n) * odds.d * p.d

\* C15: statistics.kellyCriterion lies within [0,100], and is 0 whenever
\* decimalOdds <= 1, whenever winProbability is at or outside the boundary of
\* (0,1), and whenever the raw Kelly value (b*p - q)/b is negative.
C15_KellyRange ==
  pc = "done" =>
    /\ statistics.kellyCriterion.k = "fin"
    /\ ~Below(statistics.kellyCriterion, Zero)
    /\ ~Below(Norm(100, 1), statistics.kellyCriterion)
    /\ (\/ ~Below(Norm(1, 1), decimalOdds)
        \/ ~Below(Zero, winProbability)
        \/ ~Below(winProbability, Norm(1, 1))
        \/ RawKellyNegative(decimalOdds, winProbability))
       => statistics.kellyCriterion = Zero

\* C15 witness: decimal odds 3 with win probability 1/4, whose raw Kelly value
\* (2 * 1/4 - 3/4) / 2 is negative, gave kellyCriterion 0.
C15_Witness ==
  /\ pc = "done"
  /\ decimalOdds = Norm(3, 1)
  /\ winProbability = Norm(1, 4)
  /\ statistics.kellyCriterion = Zero

\* C15 second witness: decimal odds 3 with win probability 1/2 gave the
\* positive kellyCriterion 25.
C15_WitnessPositive ==
  /\ pc = "done"
  /\ decimalOdds = Norm(3, 1)
  /\ winProbability = Norm(1, 2)
  /\ statistics.kellyCriterion = Norm(25, 1)

\* floor(bankroll / baseBet) for positive bankroll and baseBet
Units(bankroll, baseBet) == (bankroll.n * baseBet.d) \div (bankroll.d * baseBet.n)

\* x clamped to [0, 1]
Clamp01(x) ==
  IF x.k = "inf" THEN (IF x.n > 0 THEN Norm(1, 1) ELSE Zero)
  ELSE IF Below(x, Zero) THEN Zero
  ELSE IF Below(Norm(1, 1), x) THEN Norm(1, 1)
  ELSE x

\* The risk of ruin of C16 as a percentage
RuinPercent(bankroll, baseBet, p) ==
  IF \/ ~Below(Zero, bankroll) \/ ~Below(Zero, baseBet)
     \/ ~Below(Zero, p) \/ ~Below(p, Norm(1, 1)) \/ p = Norm(1, 2)
    THEN Norm(100, 1)
  ELSE JsMul(Norm(100, 1),
             Clamp01(Power(Norm(p.d - p.n, p.n), Units(bankroll, baseBet))))

\* C16: statistics.riskOfRuin is 100 * ((1-p)/p)^floor(bankroll/baseBet)
\* clamped to [0,100] when 0 < p < 1 and p # 0.5, is 100 when p = 0.5 or when
\* bankroll <= 0, baseBet <= 0 or p is outside (0,1), and always lies in [0,100].
C16_RiskOfRuin ==
  pc = "done" =>
    /\ statistics.riskOfRuin = RuinPercent(config.bankroll, config.baseBet, winProbability)
    /\ statistics.riskOfRuin.k = "fin"
    /\ ~Below(statistics.riskOfRuin, Zero)
    /\ ~Below(Norm(100, 1), statistics.riskOfRuin)

\* C16 witness: bankroll 7/2, baseBet 3/2 (2 units) and win probability 2/3
\* gave the risk of ruin 100 * (1/2)^2 = 25.
C16_Witness ==
  /\ pc = "done"
  /\ config.bankroll = Norm(7, 2)
  /\ config.baseBet = Norm(3, 2)
  /\ winProbability = Norm(2, 3)
  /\ statistics.riskOfRuin = Norm(25, 1)

\* ------------------------------------------------------------------ C17

\* A trial count the specification admits: a finite number in [1, 100000]
ValidTrialCount(n) == IsFin(n) /\ JsGe(n, Num(1)) /\ JsLe(n, Num(SessionLimit))

\* The call has been refused by the check of line 251 or has not begun
RefusedOrNotBegun == pc \in {"simulate", "simerror"} /\ results = <<>> /\ builds = 0

\* C17: simulateMartingaleSessions fails with an error and produces no
\* trials whenever numSessions is not a finite number with
\* 1 <= numSessions <= 100000.
C17_RejectsInvalidCount == ~ValidTrialCount(numSessions) => RefusedOrNotBegun

\* What line 251 does refuse: every value that is no finite number, every
\* number <= 0 and every number above 100000
SessionsRefusedOutsideOpenRange ==
  (~IsFin(numSessions) \/ JsLe(numSessions, Zero) \/ JsGt(numSessions, Num(SessionLimit)))
    => RefusedOrNotBegun


\* ------------------------------------------------------------------ C18

\* A whole number of sessions
WholeCount(n) == IsFin(n) /\ n.d = 1

\* C18: simulateMartingaleSessions raises only when numSessions is out of
\* [1, 100000] or when calculateMartingaleProgression raises: for every
\* configuration that call accepts, one with an empty progression included,
\* and every valid numSessions it returns exactly numSessions trial records
\* and a summary.
C18_RaisesOnlyOnInvalidCount ==
  /\ pc = "simerror" => ~ValidTrialCount(numSessions)
  /\ (pc = "simdone" /\ ValidTrialCount(numSessions) /\ WholeCount(numSessions))
       => /\ Num(Len(results)) = numSessions
          /\ summary.totalSessions = numSessions

\* With a valid numSessions the only error of simulateMartingaleSessions
\* itself is the one of line 311 on an empty progression
SimulationRaisesOnlyOnEmpty ==
  (pc = "simerror" /\ ValidTrialCount(numSessions))
    => /\ progression = <<>>
       /\ roundIndex = 0
       /\ error = "TypeError: Cannot read properties of undefined"


\* A call that returns with a whole valid numSessions returns that many records
WholeCountsReturnAllRecords ==
  (pc = "simdone" /\ ValidTrialCount(numSessions) /\ WholeCount(numSessions))
    => /\ Num(Len(results)) = numSessions
       /\ summary.totalSessions = numSessions


\* ------------------------------------------------------------------ C19

\* The position of the first draw of ds below p, 0 when there is none
FirstBelow(ds, p) ==
  IF \E i \in 1..Len(ds) : Below(ds[i], p)
    THEN CHOOSE i \in 1..Len(ds) :
           Below(ds[i], p) /\ \A j \in 1..(i - 1) : ~Below(ds[j], p)
  ELSE 0

\* The record the claim gives a trial over rounds with the draws ds
TrialRecord(rounds, ds, p) ==
  IF FirstBelow(ds, p) > 0
    THEN [won |-> TRUE, roundsPlayed |-> FirstBelow(ds, p),
          profit |-> rounds[FirstBelow(ds, p)].netProfitIfWin,
          totalWagered |-> rounds[FirstBelow(ds, p)].totalWagered]
  ELSE [won |-> FALSE, roundsPlayed |-> Len(rounds),
        profit |-> JsSub(Zero, rounds[Len(rounds)].totalWagered),
        totalWagered |-> rounds[Len(rounds)].totalWagered]

\* One step of a trial: either one more draw, for the next round in order and
\* after draws that were all not below winProbability, or the end of the
\* trial with the claim's record, after one draw for each round up to the
\* winning one, or for every round when none wins
TrialStep ==
  /\ pc' \in {"draw", "sessions"}
  /\ Len(draws) = roundIndex
  /\ pc' = "draw" =>
       /\ Len(draws') = Len(draws) + 1
       /\ SubSeq(draws', 1, Len(draws)) = draws
       /\ FirstBelow(draws', winProbability) = 0
       /\ roundIndex' = Len(draws')
       /\ roundIndex' <= Len(progression)
       /\ results' = results
  /\ pc' = "sessions" =>
       /\ FirstBelow(draws, winProbability) = 0
       /\ SubSeq(draws', 1, Len(draws)) = draws
       /\ Len(draws') = IF FirstBelow(draws', winProbability) > 0
                          THEN FirstBelow(draws', winProbability)
                        ELSE Len(progression)
       /\ results' = Append(results, TrialRecord(progression, draws', winProbability))
  /\ progression' = progression

\* C19: in each simulated trial the rounds are tried in order with one draw
\* each; the trial wins at the first round i whose draw is below
\* winProbability and yields {won: true, roundsPlayed: i+1, profit:
\* netProfitIfWin(i), totalWagered: totalWagered(i)}; if no round's draw is
\* below winProbability it yields {won: false, roundsPlayed: n, profit:
\* -totalWagered(n-1), totalWagered: totalWagered(n-1)}.
C19_TrialOutcome == [][pc = "draw" => TrialStep]_vars

\* The same for every trial over a progression that has a round
TrialOutcomeOfRounds == [][(pc = "draw" /\ progression # <<>>) => TrialStep]_vars

\* Trials of all kinds occur: won at the first round, won at a later round,
\* and lost after every round
TrialsOfAllKinds ==
  /\ pc = "simdone"
  /\ \E a, b, c \in 1..Len(results) :
       /\ results[a].won /\ results[a].roundsPlayed = 1
       /\ results[b].won /\ results[b].roundsPlayed > 1
       /\ ~results[c].won /\ results[c].roundsPlayed > 1


\* ------------------------------------------------------------------ C20

\* The kinds of warning in their fixed order
WarningOrder == <<"high-risk", "bankroll", "negative-ev", "kelly", "large-bet">>

\* The position of the kind ty in the fixed order
Rank(ty) == CHOOSE i \in 1..Len(WarningOrder) : WarningOrder[i] = ty

\* The kind ty applies to configuration c, statistics st and the rounds
Applies(ty, c, st, rounds) ==
  CASE ty = "high-risk" ->
         IsFin(st.bustProbability) /\ st.bustProbability.n > 10 * st.bustProbability.d
    [] ty = "bankroll" -> Below(c.bankroll, st.recommendedBankroll)
    [] ty = "negative-ev" -> st.expectedValue.n < 0
    [] ty = "kelly" -> IsFin(st.kellyCriterion) /\ st.kellyCriterion.n = 0
    [] ty = "large-bet" ->
         \E i \in 1..Len(rounds) :
           2 * rounds[i].betAmount.n * c.bankroll.d > c.bankroll.n * rounds[i].betAmount.d

\* C20: generateRiskWarnings returns exactly the applicable warnings, each at
\* most once, in the fixed order high-risk, bankroll, negative-ev, kelly,
\* large-bet, where high-risk applies iff bustProbability > 10, bankroll iff
\* config.bankroll < recommendedBankroll, negative-ev iff expectedValue < 0,
\* kelly iff kellyCriterion = 0, and large-bet iff the maximum betAmount of
\* the progression exceeds 50% of the bankroll.
C20_WarningsInOrder ==
  pc = "warned" =>
    /\ \A i \in 1..Len(warnings) : \E r \in 1..Len(WarningOrder) : warnings[i].type = WarningOrder[r]
    /\ \A i, j \in 1..Len(warnings) :
         i < j => Rank(warnings[i].type) < Rank(warnings[j].type)
    /\ \A r \in 1..Len(WarningOrder) :
         (\E i \in 1..Len(warnings) : warnings[i].type = WarningOrder[r])
           <=> Applies(WarningOrder[r], config, statsArg, progression)

\* All five warnings are returned
C20_Witness ==
  /\ pc = "warned"
  /\ Len(warnings) = 5
  /\ warnings[5].type = "large-bet"

\* No warning is returned, with a bet of exactly half the bankroll
C20_WitnessNone ==
  /\ pc = "warned"
  /\ warnings = <<>>
  /\ Len(progression) = 1
  /\ JsMul(progression[1].betAmount, Num(2)) = config.bankroll


\* ------------------------------------------------------------------ C21

\* s without a leading sign
Unsigned(s) == IF Len(s) > 0 /\ s[1] \in {"+", "-"} THEN Tail(s) ELSE s

\* s is an integer numeral: an optional sign and one or more digits
IsIntegerText(s) ==
  /\ Len(Unsigned(s)) >= 1
  /\ \A i \in 1..Len(Unsigned(s)) : IsDigit(Unsigned(s)[i])

\* The value of the digit string ds, digit by digit from the right
RECURSIVE DigitSum(_, _)
DigitSum(ds, k) ==
  IF k = 0 THEN 0 ELSE DigitVal(ds[k]) * Pow10(Len(ds) - k) + DigitSum(ds, k - 1)

\* The integer an integer numeral denotes
TextValue(s) ==
  (IF s[1] = "-" THEN -1 ELSE 1) * DigitSum(Unsigned(s), Len(Unsigned(s)))

\* The odds input is an American value: a whole number or an integer numeral
\* whose value a number can hold
IsAmericanValue(x) ==
  \/ x.k = "fin" /\ x.d = 1
  \/ /\ x.k = "str"
     /\ IsIntegerText(x.s)
     /\ TextValue(x.s) \in (-MaxDouble)..MaxDouble

AmericanValue(x) == IF x.k = "fin" THEN x.n ELSE TextValue(x.s)

\* The fraction <<a, b>> raised to the floor 101/100
Floored(a, b) == IF 100 * a < 101 * b THEN <<101, 100>> ELSE <<a, b>>

\* The decimal odds the claim gives the American value v, as a fraction
AmericanExpected(v) ==
  IF v > 0 THEN Floored(v + 100, 100)
  ELSE IF v < 0 /\ -v >= 100 THEN Floored(100 + (-v), -v)
  ELSE <<101, 100>>

\* The number x is the fraction f
IsFraction(x, f) == x.k = "fin" /\ x.n * f[2] = f[1] * x.d

\* C21: American odds conversion: a value v > 0 gives decimal v/100 + 1; a
\* value v < 0 with |v| >= 100 gives 100/|v| + 1 (so -200 gives 1.5); a value
\* v < 0 with |v| < 100, and zero, fall back to 1.01; a leading '+' in a
\* string is accepted; every result is subject to the 1.01 floor. Checked of
\* convertToDecimal and of americanToDecimal called directly.
C21_AmericanConversion ==
  (pc = "converted" /\ config.oddsType = "american" /\ IsAmericanValue(config.odds))
    => /\ IsFraction(decimalOdds, AmericanExpected(AmericanValue(config.odds)))
       /\ IsFraction(americanToDecimal(config.odds),
                     AmericanExpected(AmericanValue(config.odds)))

\* -200 has given 1.5
C21_Witness ==
  /\ pc = "converted"
  /\ config.oddsType = "american"
  /\ config.odds = Str(<<"-", "2", "0", "0">>)
  /\ decimalOdds = Rat(3, 2)

\* +150 has given 2.5, -50 the fallback and -20000 the floor
C21_WitnessPlus ==
  /\ pc = "converted"
  /\ config.oddsType = "american"
  /\ config.odds = Str(<<"+", "1", "5", "0">>)
  /\ decimalOdds = Rat(5, 2)
  /\ americanToDecimal(Num(-50)) = MinOdds
  /\ americanToDecimal(Str(<<"-", "2", "0", "0", "0", "0">>)) = MinOdds


\* ------------------------------------------------------------------ C22

\* The positions of '/' in s
Slashes(s) == {i \in 1..Len(s) : s[i] = "/"}

\* The position of the first '/' of s
FirstSlash(s) == CHOOSE i \in Slashes(s) : \A j \in Slashes(s) : i <= j

\* The position where the second part of s ends: before the second '/', or
\* at the end of s
SecondEnd(s) ==
  IF \E j \in Slashes(s) : j > FirstSlash(s)
    THEN (CHOOSE j \in Slashes(s) :
            j > FirstSlash(s) /\ \A k \in Slashes(s) : k > FirstSlash(s) => j <= k) - 1
  ELSE Len(s)

\* num/den + 1 for the finite numbers num and den # 0, as a fraction with a
\* positive denominator, raised to the floor
FractionPlusOne(num, den) ==
  IF num.d * den.n > 0
    THEN Floored(num.n * den.d + num.d * den.n, num.d * den.n)
  ELSE Floored(-(num.n * den.d + num.d * den.n), -(num.d * den.n))

\* The decimal odds of the parts p and q: a part that is empty or no number,
\* or q = 0, gives the fallback
PartsExpected(p, q) ==
  IF /\ Len(p) > 0
     /\ Len(q) > 0
     /\ IsFin(ToNumber(p))
     /\ IsFin(ToNumber(q))
     /\ ToNumber(q).n # 0
    THEN FractionPlusOne(ToNumber(p), ToNumber(q))
  ELSE <<101, 100>>

\* The decimal odds the claim gives the fractional input x: the value of
\* "num/den" when x is a string of exactly two parts, else the fallback
FractionalExpected(x) ==
  IF x.k = "str" /\ Cardinality(Slashes(x.s)) = 1
    THEN PartsExpected(SubSeq(x.s, 1, FirstSlash(x.s) - 1),
                       SubSeq(x.s, FirstSlash(x.s) + 1, Len(x.s)))
  ELSE <<101, 100>>

\* What fractionalToDecimal computes: the value of the first two parts,
\* whatever follows them
FirstTwoExpected(x) ==
  IF x.k = "str" /\ Cardinality(Slashes(x.s)) >= 1
    THEN PartsExpected(SubSeq(x.s, 1, FirstSlash(x.s) - 1),
                       SubSeq(x.s, FirstSlash(x.s) + 1, SecondEnd(x.s)))
  ELSE <<101, 100>>

\* C22: fractional odds conversion: a well-formed "num/den" string with
\* den # 0 gives decimal num/den + 1 (so "3/2" gives 2.5); every input with
\* malformed syntax (not exactly two parts separated by one '/'), a
\* non-numeric part, or den = 0 falls back to 1.01. The final guard at 1.01
\* applies to the value.
C22_FractionalConversion ==
  (pc = "converted" /\ config.oddsType = "fractional")
    => /\ IsFraction(decimalOdds, FractionalExpected(config.odds))
       /\ IsFraction(fractionalToDecimal(config.odds), FractionalExpected(config.odds))

\* The conversion of the first two parts is what is returned
FractionalOfFirstTwoParts ==
  (pc = "converted" /\ config.oddsType = "fractional")
    => /\ IsFraction(decimalOdds, FirstTwoExpected(config.odds))
       /\ IsFraction(fractionalToDecimal(config.odds), FirstTwoExpected(config.odds))

\* "3/2" has given 2.5
ThreeToTwo ==
  /\ pc = "converted"
  /\ config.oddsType = "fractional"
  /\ config.odds = Str(<<"3", "/", "2">>)
  /\ decimalOdds = Rat(5, 2)


\* ------------------------------------------------------------------ C23

\* s without its '.' characters
RECURSIVE NoPoint(_)
NoPoint(s) ==
  IF s = <<>> THEN <<>>
  ELSE (IF Head(s) = "." THEN <<>> ELSE <<Head(s)>>) \o NoPoint(Tail(s))

\* s is a decimal numeral: digits with at most one point among them
IsDecimalText(s) ==
  /\ \A i \in 1..Len(s) : IsDigit(s[i]) \/ s[i] = "."
  /\ Cardinality({i \in 1..Len(s) : s[i] = "."}) <= 1
  /\ Len(NoPoint(s)) >= 1

\* The number of digits of s after its point
PlacesOf(s) ==
  IF \E i \in 1..Len(s) : s[i] = "."
    THEN Len(s) - (CHOOSE i \in 1..Len(s) : s[i] = ".")
  ELSE 0

\* The fraction a decimal numeral denotes
DecimalValue(s) == <<DigitSum(NoPoint(s), Len(NoPoint(s))), Pow10(PlacesOf(s))>>

\* s is "num/den" with num and den digit strings
IsFractionText(s) ==
  /\ Cardinality(Slashes(s)) = 1
  /\ FirstSlash(s) > 1
  /\ FirstSlash(s) < Len(s)
  /\ \A i \in 1..Len(s) : i # FirstSlash(s) => IsDigit(s[i])

\* The fraction <<num, den>> of "num/den"
FractionValue(s) ==
  <<DigitSum(SubSeq(s, 1, FirstSlash(s) - 1), FirstSlash(s) - 1),
    DigitSum(SubSeq(s, FirstSlash(s) + 1, Len(s)), Len(s) - FirstSlash(s))>>

\* x is a well-formed value of type ty
WellFormed(x, ty) ==
  CASE ty = "american" -> IsAmericanValue(x)
    [] ty = "fractional" -> x.k = "str" /\ IsFractionText(x.s)
    [] OTHER -> x.k = "fin" \/ (x.k = "str" /\ IsDecimalText(x.s))

\* The value of a well-formed x of type ty, as a fraction
ValueOf(x, ty) ==
  CASE ty = "american" -> <<AmericanValue(x), 1>>
    [] ty = "fractional" -> FractionValue(x.s)
    [] OTHER -> IF x.k = "fin" THEN <<x.n, x.d>> ELSE DecimalValue(x.s)

\* The fraction f is one a number holds
InNumberRange(f) == f[2] > 0 /\ Abs(f[1]) \div f[2] < MaxDouble

\* f lies in the valid domain the claim names for type ty, and the decimal
\* odds it stands for are one a number holds
InDomain(f, ty) ==
  /\ InNumberRange(f)
  /\ CASE ty = "decimal" -> 100 * f[1] >= 101 * f[2]
       [] ty = "american" -> Abs(f[1]) >= 100
       [] ty = "fractional" -> f[1] >= 1
       [] ty = "implied" -> f[1] > 0 /\ f[1] < 100 * f[2] /\ f[2] \div f[1] < MaxDouble \div 100

\* The decimal odds f stands for are at least 1.01 before any guard, and f
\* is not the American -100, which is the same price as +100
Unclamped(f, ty) ==
  CASE ty = "decimal" -> TRUE
    [] ty = "american" -> f[1] >= 100 \/ (f[1] <= -101 /\ f[1] >= -10000)
    [] ty = "fractional" -> 100 * f[1] >= f[2]
    [] ty = "implied" -> 10000 * f[2] >= 101 * f[1]

\* The value a formatted text of type ty shows, as a fraction
Shown(s, ty) ==
  CASE ty = "american" -> <<TextValue(s), 1>>
    [] ty = "fractional" -> FractionValue(s)
    [] ty = "implied" -> DecimalValue(SubSeq(s, 1, Len(s) - 1))
    [] OTHER -> DecimalValue(s)

\* The rounding tolerance of the format of type ty: half a unit of its last
\* place
Tolerance(ty) ==
  CASE ty = "american" -> <<1, 2>>
    [] ty = "implied" -> <<1, 20>>
    [] OTHER -> <<1, 200>>

\* The fractions f and g differ by at most tol
Close(f, g, tol) == Abs(f[1] * g[2] - g[1] * f[2]) * tol[2] <= tol[1] * f[2] * g[2]

\* The formatted text shows the value of the odds that were converted, and
\* the numeric inverses return it exactly
ComesBack(x, ty) ==
  /\ formatted.k = "str"
  /\ Close(ValueOf(x, ty), Shown(formatted.s, ty), Tolerance(ty))
  /\ ty = "american" => IsFraction(decimalToAmerican(decimalOdds), ValueOf(x, ty))
  /\ ty = "implied"
       => IsFraction(decimalToImpliedProbability(decimalOdds), ValueOf(x, ty))

\* C23 as stated: for every well-formed x in the valid domain of its type
\* (decimal >= 1.01, American with |value| >= 100, fractional with positive
\* integers, implied in (0,100)), converting x with convertToDecimal and back
\* with formatOdds yields x again up to rounding tolerance.
C23_RoundTrip ==
  (/\ pc = "formatted"
   /\ WellFormed(config.odds, config.oddsType)
   /\ InDomain(ValueOf(config.odds, config.oddsType), config.oddsType))
    => ComesBack(config.odds, config.oddsType)

\* C23 amended: the round trip holds for every well-formed x of the valid
\* domain whose decimal odds are at least 1.01 before the guard: decimal
\* >= 1.01, American >= 100 or from -10000 to -101, fractional num/den with
\* positive integers and num/den >= 1/100, implied in (0, 100/1.01].
C23_RoundTripUnclamped ==
  (/\ pc = "formatted"
   /\ WellFormed(config.odds, config.oddsType)
   /\ InDomain(ValueOf(config.odds, config.oddsType), config.oddsType)
   /\ Unclamped(ValueOf(config.odds, config.oddsType), config.oddsType))
    => ComesBack(config.odds, config.oddsType)

\* -200 has come back as "-200"
C23_Witness ==
  /\ pc = "formatted"
  /\ config.oddsType = "american"
  /\ config.odds = Str(<<"-", "2", "0", "0">>)
  /\ formatted = Str(<<"-", "2", "0", "0">>)

\* "1/3" has come back as "33/100"
C23_WitnessRounded ==
  /\ pc = "formatted"
  /\ config.oddsType = "fractional"
  /\ config.odds = Str(<<"1", "/", "3">>)
  /\ formatted = Str(<<"3", "3", "/", "1", "0", "0">>)

\* -100 has come back as "+100"
MinusHundredComesBackPlus ==
  /\ pc = "formatted"
  /\ config.oddsType = "american"
  /\ config.odds = Num(-100)
  /\ formatted = Str(<<"+", "1", "0", "0">>)

\* 99.5% has come back as "99.0%"
NearCertainComesBackFloored ==
  /\ pc = "formatted"
  /\ config.oddsType = "implied"
  /\ config.odds = Rat(995, 10)
  /\ formatted = Str(<<"9", "9", ".", "0", "%">>)


\* ------------------------------------------------------------------ C24

\* The odds of c are a decimal numeral below 1.01
LowDecimalString(c) ==
  /\ c.oddsType = "decimal"
  /\ c.odds.k = "str"
  /\ IsDecimalText(c.odds.s)
  /\ 100 * DecimalValue(c.odds.s)[1] < 101 * DecimalValue(c.odds.s)[2]

\* Every round returned was paid at 1.01
PaidAtFloor ==
  \A i \in 1..Len(progression) :
    /\ progression[i].totalReturnIfWin.k = "fin"
    /\ 100 * progression[i].totalReturnIfWin.n * progression[i].betAmount.d
         = 101 * progression[i].betAmount.n * progression[i].totalReturnIfWin.d

\* C24: calculateMartingaleProgression called with an otherwise valid
\* configuration and a decimal odds string below 1.01 (such as '1.00' or
\* '0.50') does not raise: the odds converter supplies its fallback and the
\* result is computed with config.decimalOdds = 1.01.
C24_LowOddsFallback ==
  (ValidConfiguration(config) /\ LowDecimalString(config))
    => /\ pc # "error"
       /\ error = ""
       /\ pc \in {"loop", "stats", "done"} => IsFraction(decimalOdds, <<101, 100>>)
       /\ PaidAtFloor
       /\ pc = "done" => statistics # NoStatistics

\* '0.50' has been computed at 1.01 with a round returned
C24_Witness ==
  /\ pc = "done"
  /\ ValidConfiguration(config)
  /\ config.odds = Str(<<"0", ".", "5", "0">>)
  /\ config.oddsType = "decimal"
  /\ IsFraction(decimalOdds, <<101, 100>>)
  /\ Len(progression) >= 1


\* ------------------------------------------------------------------ C25

\* C25: simulateMartingaleSessions builds the progression once per call and
\* every trial reads that single round table; the progression is not derived
\* again per trial. builds counts the calls of calculateMartingaleProgression.
C25_BuiltOnce == builds <= 1

\* The progression is built once by simulateMartingaleSessions and once more
\* by every trial that has begun
BuiltOncePerTrial ==
  /\ pc \in {"sessions", "simdone"} => builds = 1 + session
  /\ pc = "draw" => builds = 2 + session


\* ------------------------------------------------------------------ C26

\* floor(bankroll / baseBet) of the positive finite numbers of c
StakesAffordable(c) == (c.bankroll.n * c.baseBet.d) \div (c.bankroll.d * c.baseBet.n)

\* C26: regardless of maxRounds, for betMultiplier >= 1 the progression stops
\* by unaffordability within a bounded number of steps: the number of emitted
\* rounds never exceeds floor(bankroll / baseBet).
C26_BoundedByBankroll ==
  (/\ PositiveFinite(config.baseBet)
   /\ PositiveFinite(config.bankroll)
   /\ betMultiplier.k = "fin"
   /\ betMultiplier.n >= betMultiplier.d)
    => Len(progression) <= StakesAffordable(config)

\* With 20 rounds allowed, a flat stake of 1 and a bankroll of 10 the
\* progression has ended after 10 rounds because the 11th is unaffordable
C26_Witness ==
  /\ pc = "done"
  /\ config.maxRounds = Undefined
  /\ betMultiplier = Num(1)
  /\ Len(progression) = 10
  /\ Len(progression) = StakesAffordable(config)
  /\ round = 11
  /\ Unaffordable(currentBet, remainingBankroll)


\* ------------------------------------------------------------------ C27

\* The summary agrees with the trial records returned
SummaryAgrees ==
  /\ summary.totalSessions = Num(Len(results))
  /\ Num(summary.wins + summary.losses) = summary.totalSessions
  /\ summary.wins = Cardinality({i \in 1..Len(results) : results[i].won})
  /\ summary.winRate.k = "fin"
  /\ summary.winRate.n * Len(results) = 100 * summary.wins * summary.winRate.d
  /\ summary.winRate.n >= 0
  /\ summary.winRate.n <= 100 * summary.winRate.d
  /\ \E i \in 1..Len(results) : results[i].profit = summary.maxProfit
  /\ \E i \in 1..Len(results) : results[i].profit = summary.maxLoss
  /\ \A i \in 1..Len(results) :
       /\ Cmp(results[i].profit, summary.maxProfit) <= 0
       /\ Cmp(results[i].profit, summary.maxLoss) >= 0
  /\ summary.profitableSessions <= summary.wins

\* C27: for every successful simulateMartingaleSessions call,
\* summary.totalSessions equals the number of trial records returned,
\* wins + losses = totalSessions, winRate = 100 * wins / totalSessions lies
\* in [0,100], maxProfit and maxLoss are the maximum and minimum trial
\* profit, and profitableSessions never exceeds wins.
C27_SummaryConsistent == pc = "simdone" => SummaryAgrees

\* The same for the calls with a whole number of sessions
SummaryOfWholeCounts == (pc = "simdone" /\ WholeCount(numSessions)) => SummaryAgrees

\* A call with 5/2 sessions has returned three won trials and a win rate of 120
WinRateAboveHundred ==
  /\ pc = "simdone"
  /\ numSessions = Rat(5, 2)
  /\ Len(results) = 3
  /\ summary.wins = 3
  /\ summary.totalSessions = Rat(5, 2)
  /\ summary.winRate = Num(120)

\* ---------------------------------------------------------------- C28
\* C28: for every configuration calculateMartingaleProgression accepts, the
\* Kelly numerator b*p - q is exactly 0, statistics.kellyCriterion is 0, and
\* generateRiskWarnings called with those statistics returns a 'kelly' warning.

\* Some warning of ws has type t
Emits(ws, t) == \E i \in 1..Len(ws) : ws[i].type = t

\* b * p - q for the accepted odds
KellyNumerator ==
  JsSub(JsMul(JsSub(decimalOdds, Num(1)), winProbability), JsSub(Num(1), winProbability))

C28_KellyZero ==
  /\ pc = "done" => /\ KellyNumerator = Zero
                    /\ statistics.kellyCriterion = Zero
  /\ pc = "warned" => /\ statsArg.kellyCriterion = Zero
                      /\ Emits(warnings, "kelly")

C28_Witness ==
  /\ pc = "warned"
  /\ Len(progression) >= 2
  /\ ~JsEq(decimalOdds, Num(2))
  /\ Emits(warnings, "kelly")

\* ---------------------------------------------------------------- C29
\* C29: for every accepted configuration, whatever baseBet, bankroll,
\* betMultiplier, maxRounds, targetProfit and maxTableLimit are,
\* statistics.expectedValue is exactly 0, and generateRiskWarnings called with
\* those statistics returns no 'negative-ev' warning.
C29_ExpectedValueZero ==
  /\ pc = "done" => statistics.expectedValue = Zero
  /\ pc = "warned" => ~Emits(warnings, "negative-ev")

\* betMultiplier is absent or a finite number
FiniteMultiplier == config.betMultiplier.k \in {"undef", "fin"}

\* The expected value is 0 when the multiplier is absent or finite, and no
\* 'negative-ev' warning is returned for any accepted configuration
ExpectedValueZeroForNumbers ==
  /\ (pc = "done" /\ FiniteMultiplier) => statistics.expectedValue = Zero
  /\ pc = "warned" => /\ ~Emits(warnings, "negative-ev")
                      /\ ~JsLt(statsArg.expectedValue, Zero)

\* betMultiplier NaN: only the first round counts and the expected value is
\* winProbability * netProfitIfWin of round 1
NaNMultiplierPositiveValue ==
  /\ pc = "warned"
  /\ isNaN(config.betMultiplier)
  /\ Len(progression) = 3
  /\ statsArg.expectedValue = Rat(10, 3)

ZeroValueOverRounds ==
  /\ pc = "warned"
  /\ config.betMultiplier = Num(-2)
  /\ Len(progression) = 3
  /\ statsArg.expectedValue = Zero

\* ---------------------------------------------------------------- C30
\* C30: for any odds input of a recognized type, calculateMartingaleProgression
\* never raises 'Invalid odds - must be greater than 1.00' or 'Invalid
\* probability calculation', simulateMartingaleSessions never raises 'Invalid
\* win probability for simulation', and winProbability, once derived, lies in
\* (0, 1/1.01].

\* The messages of the three branches
OddsBranchMessages ==
  {"Invalid odds - must be greater than 1.00", "Invalid probability calculation",
   "Invalid win probability for simulation"}

\* calculateMartingaleProgression has derived winProbability
ProbabilityDerived == pc \notin {"simulate", "start", "error", "simerror"}

C30_OddsBranchesDead ==
  /\ error \notin OddsBranchMessages
  /\ ProbabilityDerived =>
       /\ IsFin(decimalOdds)
       /\ decimalOdds.n * 100 >= decimalOdds.d * 101
       /\ IsFin(winProbability)
       /\ winProbability.n > 0
       /\ winProbability.n * 101 <= winProbability.d * 100

\* A text that is no odds at all has been simulated at the floor 1.01
C30_Witness ==
  /\ pc = "simdone"
  /\ config.odds = Str(<<"a", "/", "0">>)
  /\ config.oddsType = "fractional"
  /\ winProbability = Rat(100, 101)
  /\ Len(results) = 1

====
